---- MODULE Spec2Model ----
(***************************************************************************)
(* Model of the consecutive-call detectors of ringba-api:                  *)
(*   consecutiveCalls.js        (the base variant,     variant = "base")   *)
(*   consecutiveCallsSameBid.js (the same-bid variant, variant = "samebid")*)
(*                                                                         *)
(* Eleven specifications share the module:                                 *)
(*   SpecGroup  the grouper scan, one loop iteration per step, on inputs   *)
(*              drawn from bounded families of call-record sequences;      *)
(*   SpecGroupLive  the grouper scan with a fair loop step;                *)
(*   SpecHash   hashBatch applied to bounded triples of call IDs;          *)
(*   Spec       overlapping runs of runReport over the lock file, the      *)
(*              batch cache file and the messaging sink;                   *)
(*   SpecSeq    the same runs, started one after the other;                *)
(*   SpecAsync  the sequential runs, with the settling of their posts;     *)
(*   SpecLive   the same-bid runs fired periodically, with fairness;       *)
(*   SpecPage   the retrieval of one entity's calls, request by request;   *)
(*   SpecBatch  batchCallIds applied to lists of call IDs and nulls;       *)
(*   SpecWindow currentDate and getTodayEST at the instants of a start;    *)
(*   SpecNoAnswer  the no-answer detector (targetNoAnswer.js): its pulls,  *)
(*              its scheduled ticks and its alert cache file.              *)
(*                                                                         *)
(* JavaScript values are represented as follows.                           *)
(*   string            a sequence of character codes ("" is << >>)         *)
(*   undefined id      Undefined (a sequence no string equals)             *)
(*   null number       Null                                                *)
(*   NaN               NaN                                                 *)
(*   duration value    [t |-> "null"], [t |-> "num", v |-> n] or           *)
(*                     [t |-> "str", parts |-> <<token, ...>>], the string *)
(*                     split at ":"; a token is [k |-> "int", v |-> n]     *)
(*                     (digits), [k |-> "empty"] (""), [k |-> "junk"]      *)
(*                     (text without leading digits) or                    *)
(*                     [k |-> "intjunk", v |-> n] (digits, then text)      *)
(*   bid amount        tenths of a currency unit (10.5 is 105), or Null    *)
(***************************************************************************)
EXTENDS Integers, Sequences, FiniteSets, TLC

VARIABLES
  variant,        \* which detector: "base" or "samebid"
  \* ---- groupDropBatchByTargetStrict ----
  batch,          \* the input sequence of call records
  i,              \* the scan cursor (0-based, as in the code)
  usedCallIds,    \* the call IDs consumed so far
  result,         \* the batches emitted so far
  \* ---- hashBatch ----
  win,            \* the 3-call window handed to hashBatch
  batchId,        \* its result: Unset before the call, then NoHash or the digest
  \* ---- getInbounceCallId / getDetailsPeroCallLog / getAllCallLogs ----
  page,           \* the retrieval of one entity's calls: position and lists
  \* ---- currentDate / getTodayEST ----
  clock,          \* a process start: the instant, the zone offset, the window
  \* ---- targetNoAnswer.js ----
  alerter,        \* the no-answer detector: time, alert cache file, messages, timer
  \* ---- runReport ----
  now,            \* wall clock, minutes
  today,          \* getTodayEST()
  upstream,       \* the reporting API: target name -> its call records, in call-time order
  lockFile,       \* LOCK_FILE_PATH: NoFile or the token {pid, timestamp}
  cacheFile,      \* BATCH_CACHE_PATH: NoFile or {date, batches}
  sink,           \* the messages handed to sendSlackMessage, in order
  proc,           \* the runs: pid -> the run's position and memory
  fullRunDone     \* history: some run has processed every target to the end

groupVars == <<batch, i, usedCallIds, result>>
hashVars == <<win, batchId>>
runVars == <<now, today, upstream, lockFile, cacheFile, sink, proc, fullRunDone>>
auxVars == <<clock, alerter>>
pureVars == <<variant, batch, i, usedCallIds, result, win, batchId, page, clock,
             alerter>>
vars == <<variant, batch, i, usedCallIds, result, win, batchId, page, clock,
          alerter,
          now, today, upstream, lockFile, cacheFile, sink, proc, fullRunDone>>

Variants == {"base", "samebid"}

\* ------------------------------------------------------------------------
\* Values
\* ------------------------------------------------------------------------

Null == -1
NaN == -2
Undefined == <<-1>>
PipeChar == 124

NullDur == [t |-> "null"]
NumDur(n) == [t |-> "num", v |-> n]
StrDur(parts) == [t |-> "str", parts |-> parts]
IntTok(n) == [k |-> "int", v |-> n]
EmptyTok == [k |-> "empty"]
JunkTok == [k |-> "junk"]
IntJunkTok(n) == [k |-> "intjunk", v |-> n]
Hms(h, m, s) == StrDur(<<IntTok(h), IntTok(m), IntTok(s)>>)

\* JavaScript truthiness of a duration value: null, 0 and "" are falsy.
Truthy(d) ==
  CASE d.t = "null" -> FALSE
    [] d.t = "num" -> d.v # 0
    [] OTHER -> d.parts # <<EmptyTok>>

\* Number(token)
NumberOf(tok) ==
  CASE tok.k = "int" -> tok.v
    [] tok.k = "empty" -> 0
    [] OTHER -> NaN

\* parseInt(string, 10): the leading digits of the whole string
ParseInt(parts) ==
  IF parts[1].k \in {"int", "intjunk"} THEN parts[1].v ELSE NaN

\* ------------------------------------------------------------------------
\* hmsToSeconds, normalizeDuration
\* ------------------------------------------------------------------------

InvalidMarker == 100
MaxShortSeconds == 20

hmsToSecondsBase(timeStr) ==
  IF timeStr.t = "num" THEN timeStr.v
  ELSE IF ~Truthy(timeStr) THEN InvalidMarker
  ELSE LET parts == [n \in DOMAIN timeStr.parts |-> NumberOf(timeStr.parts[n])]
       IN  IF \E n \in DOMAIN parts : parts[n] = NaN THEN InvalidMarker
           ELSE IF Len(parts) = 3 THEN parts[1] * 3600 + parts[2] * 60 + parts[3]
           ELSE LET fallback == ParseInt(timeStr.parts)
                IN  IF fallback = NaN THEN 0 ELSE fallback

normalizeDuration(value) ==
  LET secs == hmsToSecondsBase(value)
  IN  IF secs = InvalidMarker THEN 0 ELSE secs

hmsToSecondsSameBid(timeStr) ==
  IF timeStr.t = "null" THEN Null
  ELSE IF timeStr.t = "num" THEN timeStr.v
  ELSE LET parts == [n \in DOMAIN timeStr.parts |-> NumberOf(timeStr.parts[n])]
       IN  IF Len(parts) = 3
           THEN IF \E n \in DOMAIN parts : parts[n] = NaN THEN Null
                ELSE parts[1] * 3600 + parts[2] * 60 + parts[3]
           ELSE LET parsed == ParseInt(timeStr.parts)
                IN  IF parsed = NaN THEN Null ELSE parsed

\* aTime, bTime, cTime of the same-bid grouper
TimeOfSameBid(rec) ==
  IF Truthy(rec.callLengthInSeconds)
  THEN hmsToSecondsSameBid(rec.callLengthInSeconds)
  ELSE Null

\* ------------------------------------------------------------------------
\* Call records
\* ------------------------------------------------------------------------

NullRec == [isNull |-> TRUE]

Rec(id, src, dur, name, bid, phone) ==
  [isNull |-> FALSE, inboundCallId |-> id, endCallSource |-> src,
   callLengthInSeconds |-> dur, targetName |-> name, bidAmount |-> bid,
   inboundPhoneNumber |-> phone]

\* a falsy inboundCallId: undefined or ""
IdMissing(id) == id = Undefined \/ id = << >>

\* ------------------------------------------------------------------------
\* groupDropBatchByTargetStrict: the acceptance predicate
\* ------------------------------------------------------------------------

Unused_NoCheck(used, a, b, c) == TRUE

Unused(used, a, b, c) ==
  /\ a.inboundCallId \notin used
  /\ b.inboundCallId \notin used
  /\ c.inboundCallId \notin used

AllHaveTargetEnd(a, b, c) ==
  /\ a.endCallSource = "Target"
  /\ b.endCallSource = "Target"
  /\ c.endCallSource = "Target"

AllShortBase(a, b, c) ==
  /\ normalizeDuration(a.callLengthInSeconds) <= MaxShortSeconds
  /\ normalizeDuration(b.callLengthInSeconds) <= MaxShortSeconds
  /\ normalizeDuration(c.callLengthInSeconds) <= MaxShortSeconds

AllShortSameBid_NoNullCheck(a, b, c) ==
  /\ TimeOfSameBid(a) <= MaxShortSeconds
  /\ TimeOfSameBid(b) <= MaxShortSeconds
  /\ TimeOfSameBid(c) <= MaxShortSeconds

AllShortSameBid(a, b, c) ==
  /\ TimeOfSameBid(a) # Null
  /\ TimeOfSameBid(b) # Null
  /\ TimeOfSameBid(c) # Null
  /\ TimeOfSameBid(a) <= MaxShortSeconds
  /\ TimeOfSameBid(b) <= MaxShortSeconds
  /\ TimeOfSameBid(c) <= MaxShortSeconds

SameTarget(a, b, c) ==
  /\ a.targetName # ""
  /\ b.targetName # ""
  /\ c.targetName # ""
  /\ a.targetName = b.targetName
  /\ b.targetName = c.targetName

AllHaveBidAmount(a, b, c) ==
  a.bidAmount # Null /\ b.bidAmount # Null /\ c.bidAmount # Null

SameBidAmount_FirstTwo(a, b, c) == a.bidAmount = b.bidAmount

SameBidAmount(a, b, c) ==
  a.bidAmount = b.bidAmount /\ b.bidAmount = c.bidAmount

\* the same-bid variant's two skip paths ahead of the predicate
SkipTriple(a, b, c) ==
  \/ a.isNull \/ b.isNull \/ c.isNull
  \/ IdMissing(a.inboundCallId)
  \/ IdMissing(b.inboundCallId)
  \/ IdMissing(c.inboundCallId)

Accept(v, used, a, b, c) ==
  IF v = "base"
  THEN Unused(used, a, b, c) /\ AllShortBase(a, b, c) /\ AllHaveTargetEnd(a, b, c)
  ELSE /\ ~SkipTriple(a, b, c)
       /\ Unused(used, a, b, c)
       /\ AllShortSameBid(a, b, c)
       /\ AllHaveTargetEnd(a, b, c)
       /\ SameTarget(a, b, c)
       /\ AllHaveBidAmount(a, b, c)
       /\ SameBidAmount(a, b, c)

\* while (i <= batch.length - 3)
ScanRunning(b, cur) == cur <= Len(b) - 3

ScanStep_NoAdvance(v, b, st) ==
  LET a1 == b[st.i + 1]
      b1 == b[st.i + 2]
      c1 == b[st.i + 3]
  IN  IF Accept(v, st.used, a1, b1, c1)
      THEN [i |-> st.i + 3,
            used |-> st.used \cup {a1.inboundCallId, b1.inboundCallId, c1.inboundCallId},
            result |-> Append(st.result, <<a1, b1, c1>>)]
      ELSE IF v = "samebid" /\ SkipTriple(a1, b1, c1) THEN st
      ELSE [st EXCEPT !.i = st.i + 1]

ScanStep_Prepend(v, b, st) ==
  LET a1 == b[st.i + 1]
      b1 == b[st.i + 2]
      c1 == b[st.i + 3]
  IN  IF Accept(v, st.used, a1, b1, c1)
      THEN [i |-> st.i + 3,
            used |-> st.used \cup {a1.inboundCallId, b1.inboundCallId, c1.inboundCallId},
            result |-> <<(<<a1, b1, c1>>)>> \o st.result]
      ELSE [st EXCEPT !.i = st.i + 1]

\* One iteration of the while loop on the scan state [i, used, result].
ScanStep(v, b, st) ==
  LET a1 == b[st.i + 1]
      b1 == b[st.i + 2]
      c1 == b[st.i + 3]
  IN  IF Accept(v, st.used, a1, b1, c1)
      THEN [i |-> st.i + 3,
            used |-> st.used \cup {a1.inboundCallId, b1.inboundCallId, c1.inboundCallId},
            result |-> Append(st.result, <<a1, b1, c1>>)]
      ELSE [st EXCEPT !.i = st.i + 1]

RECURSIVE ScanFrom(_, _, _)
ScanFrom(v, b, st) ==
  IF ScanRunning(b, st.i) THEN ScanFrom(v, b, ScanStep(v, b, st)) ELSE st

groupDropBatchByTargetStrict(v, b) ==
  ScanFrom(v, b, [i |-> 0, used |-> {}, result |-> << >>]).result

\* ------------------------------------------------------------------------
\* hashBatch
\* ------------------------------------------------------------------------

Unset == [kind |-> "unset"]
NoHash == [kind |-> "null"]

\* crypto.createHash("md5").update(ids).digest("hex"): the digest is taken to
\* be injective, so it is represented by the string it is computed from.
Md5(str) == [kind |-> "md5", of |-> str]

\* String order of Array.prototype.sort(): by code units, a proper prefix first.
StrLess(x, y) ==
  \E k \in 1..(Len(x) + 1) :
    /\ \A j \in 1..(k - 1) : j <= Len(y) /\ x[j] = y[j]
    /\ \/ k = Len(x) + 1 /\ Len(y) >= k
       \/ k <= Len(x) /\ k <= Len(y) /\ x[k] < y[k]

\* sort() without a comparator: undefined elements go last.
SortBefore(x, y) ==
  IF x = Undefined THEN FALSE
  ELSE IF y = Undefined THEN TRUE
  ELSE StrLess(x, y)

RECURSIVE InsertSorted(_, _)
InsertSorted(x, sorted) ==
  IF sorted = << >> THEN <<x>>
  ELSE IF SortBefore(x, Head(sorted)) THEN <<x>> \o sorted
  ELSE <<Head(sorted)>> \o InsertSorted(x, Tail(sorted))

SortStrings_None(ids) == ids

RECURSIVE SortStrings(_)
SortStrings(ids) ==
  IF ids = << >> THEN << >>
  ELSE InsertSorted(Head(ids), SortStrings(Tail(ids)))

\* join("|"): undefined joins as the empty string
RECURSIVE JoinPipe(_)
JoinPipe(ids) ==
  IF ids = << >> THEN << >>
  ELSE LET h == IF Head(ids) = Undefined THEN << >> ELSE Head(ids)
       IN  IF Len(ids) = 1 THEN h ELSE h \o <<PipeChar>> \o JoinPipe(Tail(ids))

IdsOf(w) == [n \in DOMAIN w |-> w[n].inboundCallId]

hashBatchBase(w) == Md5(JoinPipe(SortStrings(IdsOf(w))))

hashBatchSameBid(w) ==
  IF Len(w) # 3 THEN NoHash
  ELSE LET kept == SelectSeq(w, LAMBDA c : ~c.isNull /\ ~IdMissing(c.inboundCallId))
           ids == JoinPipe(SortStrings(IdsOf(kept)))
       IN  IF ids = << >> THEN NoHash ELSE Md5(ids)

hashBatch(v, w) == IF v = "base" THEN hashBatchBase(w) ELSE hashBatchSameBid(w)

\* ------------------------------------------------------------------------
\* Retrieval of one entity's calls
\* ------------------------------------------------------------------------

pageSize == 150        \* records per listing request
batchSize == 50        \* call IDs per detail request
PageLimit == 10000     \* the safety limit on the offset

Min(a, b) == IF a < b THEN a ELSE b

\* the reporting API holds n calls of the entity, numbered in call-time
\* order; a listing request answers with at most pageSize of them from the
\* offset on, in ascending call-time order
UpstreamPage(n, offset) ==
  [k \in 1..Min(pageSize, IF n > offset THEN n - offset ELSE 0) |-> offset + k]

\* the detail request answers with the records of the IDs asked for
UpstreamDetails(ids) == ids

\* callIds.slice(i, i + batchSize) for the c-th value of i
Slice(callIds, c) ==
  SubSeq(callIds, (c - 1) * batchSize + 1, Min(c * batchSize, Len(callIds)))

batchCallIds_Unfiltered(callIds) ==
  [c \in 1..((Len(callIds) + batchSize - 1) \div batchSize) |-> Slice(callIds, c)]

\* batchCallIds: every slice of batchSize entries without its null entries,
\* the slices left empty dropped
batchCallIds(callIds) ==
  SelectSeq(
    [c \in 1..((Len(callIds) + batchSize - 1) \div batchSize) |->
       SelectSeq(Slice(callIds, c), LAMBDA id : id # Null)],
    LAMBDA b : Len(b) > 0)

\* the retrieval of a specification that retrieves nothing
PageIdle ==
  [phase |-> "idle", n |-> 0, offset |-> 0, allCallLogList |-> << >>,
   batchedCallLogs |-> << >>, batchIndex |-> 0, allLogs |-> << >>,
   failed |-> "none", lost |-> 0]

\* ------------------------------------------------------------------------
\* Files
\* ------------------------------------------------------------------------

MAX_LOCK_AGE == 30   \* minutes

NoFile == [exists |-> FALSE]
\* the lock file: JSON text with pid and timestamp; json is FALSE for a file
\* JSON.parse rejects, timestamp is NaN for JSON without a numeric timestamp
LockToken(pid, ts) == [exists |-> TRUE, json |-> TRUE, pid |-> pid, timestamp |-> ts]
UnreadableToken == [exists |-> TRUE, json |-> FALSE, pid |-> Null, timestamp |-> NaN]
NoTimestampToken == LockToken(0, NaN)
CrashedToken == LockToken(0, 0)

releaseLock_Keep(file) == file

\* releaseLock: the lock file, if there is one, is removed whoever wrote it
releaseLock(file) == NoFile

\* lockAge = now - lockInfo.timestamp
LockAge(t, token) == IF token.timestamp = NaN THEN NaN ELSE t - token.timestamp

\* x > y on numbers, false for NaN
Greater(x, y) == x # NaN /\ x > y

\* acquireLock after existsSync saw the file: TRUE when the token is judged
\* stale; a vanished or unparseable file throws, which the catch turns to false
StaleToken_AtThirty(t, file) ==
  /\ file.exists
  /\ file.json
  /\ LockAge(t, file) # NaN
  /\ LockAge(t, file) >= MAX_LOCK_AGE

StaleToken(t, file) ==
  /\ file.exists
  /\ file.json
  /\ Greater(LockAge(t, file), MAX_LOCK_AGE)
\* the cache file: JSON text with date and batches; json is FALSE for a file
\* JSON.parse rejects
CacheData(date, batches) ==
  [exists |-> TRUE, json |-> TRUE, date |-> date, batches |-> batches]
UnreadableCache == [exists |-> TRUE, json |-> FALSE, date |-> "", batches |-> << >>]

\* ------------------------------------------------------------------------
\* The retrieval window and the day of the store
\* ------------------------------------------------------------------------

\* instants are milliseconds since 00:00 UTC of day 0 (Date values)
SecondMs == 1000
MinuteMs == 60 * SecondMs
HourMs == 60 * MinuteMs
DayMs == 24 * HourMs

\* America/New_York is 4 hours behind UTC in summer (EDT), 5 in winter (EST)
UtcOffsets == {4, 5}

\* Date.UTC(now.getUTCFullYear(), now.getUTCMonth(), now.getUTCDate(), h, 0, 0, 0)
UtcDay(t) == t \div DayMs
DateUTC(day, h, m, sec, ms) ==
  day * DayMs + h * HourMs + m * MinuteMs + sec * SecondMs + ms

\* currentDate(): 4:00 UTC of the UTC date of the instant, to 3:59:59.999 UTC
\* of the next UTC date
currentDate(t, off) ==
  [reportStart |-> DateUTC(UtcDay(t), 4, 0, 0, 0),
   reportEnd |-> DateUTC(UtcDay(t) + 1, 3, 59, 59, 999)]

\* getTodayEST(): the calendar day of the instant in America/New_York, as a
\* day number
getTodayEST(t, off) == (t - off * HourMs) \div DayMs

ClockIdle ==
  [phase |-> "idle", now |-> 0, utcOffset |-> 4,
   reportStart |-> Null, reportEnd |-> Null, today |-> Null]

\* ------------------------------------------------------------------------
\* The no-answer detector (targetNoAnswer.js)
\* ------------------------------------------------------------------------

MIN_TARGET_DIALED == 30
NO_ANSWER_ALERT_PCT == 20          \* percent (0.2 in the code)
MIN_CALLS_SINCE_LAST_ALERT == 30

AlertTargets == {"T1", "T2"}

\* Number(x) || 0, for a field that is a number or is missing
NumberOrZero(x) == IF x = Null \/ x = NaN THEN 0 ELSE x

\* getTargetsWithHighNoAnswer: the records with targetDialed >= 30 and
\* noAnswer / targetDialed >= 0.2, with their fields made numbers
HighNoAnswer(r) ==
  LET dialed == NumberOrZero(r.targetDialed)
      noAns == NumberOrZero(r.noAnswer)
  IN  /\ ~(dialed < MIN_TARGET_DIALED)
      /\ noAns * 100 >= NO_ANSWER_ALERT_PCT * dialed
getTargetsWithHighNoAnswer(records) ==
  {[targetName |-> r.targetName,
    targetDialed |-> NumberOrZero(r.targetDialed),
    noAnswer |-> NumberOrZero(r.noAnswer)] : r \in {x \in records : HighNoAnswer(x)}}

\* isWithin9to5EST: weekday names are numbered 0 (Sun) .. 6 (Sat)
Sun == 0
Sat == 6
isWithin9to5EST(weekday, hour) ==
  LET isWeekday == weekday \notin {Sat, Sun}
  IN  isWeekday /\ hour >= 9 /\ hour < 17

\* the alert cache file: absent, unreadable, or an object  day -> (target ->
\* targetDialed at the last alert); a target without an entry maps to Null
NoEntries == [t \in AlertTargets |-> Null]
UnreadableAlertCache == [exists |-> TRUE, readable |-> FALSE]
AlertCache(obj) == [exists |-> TRUE, readable |-> TRUE, obj |-> obj]
EmptyObject == [d \in {} |-> NoEntries]

\* loadAlertCache: the object it returns; it is also what it leaves in the
\* file whenever it saves (hour 1, or a key other than today)
ParsedAlertCache(file) ==
  IF file.exists /\ file.readable THEN file.obj ELSE EmptyObject
loadAlertCache(file, todayEST, hourEST) ==
  LET cache == ParsedAlertCache(file)
  IN  IF hourEST = 1
        THEN [d \in {todayEST} |-> NoEntries]
        ELSE IF DOMAIN cache # {} /\ (\E k \in DOMAIN cache : k # todayEST)
               THEN [d \in {todayEST} |->
                       IF todayEST \in DOMAIN cache THEN cache[todayEST] ELSE NoEntries]
               ELSE cache
loadAlertCacheSaves(file, todayEST, hourEST) ==
  \/ hourEST = 1
  \/ LET cache == ParsedAlertCache(file)
     IN  DOMAIN cache # {} /\ (\E k \in DOMAIN cache : k # todayEST)
FileAfterLoad(file, todayEST, hourEST) ==
  IF loadAlertCacheSaves(file, todayEST, hourEST)
    THEN AlertCache(loadAlertCache(file, todayEST, hourEST))
    ELSE file

\* pullAndAlert: the targets to alert, given the records and the loaded cache
TodayCache(cache, todayEST) ==
  IF todayEST \in DOMAIN cache THEN cache[todayEST] ELSE NoEntries
ToAlert(records, todayCache) ==
  {t \in getTargetsWithHighNoAnswer(records) :
     LET lastDialed == IF todayCache[t.targetName] = Null
                         THEN 0 ELSE todayCache[t.targetName]
         minRequired == lastDialed + MIN_CALLS_SINCE_LAST_ALERT
     IN  t.targetDialed >= minRequired}

AlerterIdle ==
  [phase |-> "idle", startDow |-> 0, day |-> 0, mark |-> 1, hour |-> 0,
   file |-> [exists |-> FALSE], lastAlert |-> NoEntries, sent |-> {},
   timer |-> "none", outcome |-> "none"]

\* the run variables of a specification that starts no run
RunIdle ==
  /\ now = 0
  /\ today = "d2"
  /\ upstream = << >>
  /\ lockFile = NoFile
  /\ cacheFile = NoFile
  /\ sink = << >>
  /\ proc = << >>
  /\ fullRunDone = FALSE

\* the variables of the specifications of single functions, when unused
AuxIdle ==
  /\ clock = ClockIdle
  /\ alerter = AlerterIdle

\* ------------------------------------------------------------------------
\* Inputs of the grouper and of hashBatch
\* ------------------------------------------------------------------------

MaxLen == 6        \* longest sequence of the id and kind families
MaxFeatLen == 3    \* longest sequence of the duration and bid families

CallIdPool == {<<97>>, <<98>>, <<99>>, << >>}
PosId(n) == <<100 + n>>

GoodRec(id) == Rec(id, "Target", Hms(0, 0, 15), "T1", 105, "555")

DurationPool ==
  { NullDur, NumDur(0), NumDur(20), NumDur(21), NumDur(100),
    Hms(0, 0, 15), Hms(0, 1, 40),
    StrDur(<<EmptyTok>>),                              \* ""
    StrDur(<<IntTok(15)>>),                            \* "15"
    StrDur(<<JunkTok>>),                               \* "abc"
    StrDur(<<IntTok(1), JunkTok, IntTok(3)>>),         \* "1:xx:3"
    StrDur(<<IntJunkTok(12)>>),                        \* "12abc"
    StrDur(<<IntTok(1), IntTok(30)>>),                 \* "1:30"
    StrDur(<<IntTok(0), EmptyTok, IntTok(5)>>) }       \* "0::5"

KindPool ==
  { [src |-> "Target", dur |-> Hms(0, 0, 15)],
    [src |-> "Target", dur |-> Hms(0, 0, 21)],
    [src |-> "Caller", dur |-> Hms(0, 0, 5)] }

BidPool == [name : {"T1", "T2", ""}, bid : {Null, 105, 120}]

\* good records, call IDs free (repeated and missing IDs happen)
FamIds(n) == [1..n -> {GoodRec(id) : id \in CallIdPool}]

\* distinct call IDs, termination source and length vary
FamKinds(n) ==
  { [k \in 1..n |-> Rec(PosId(k), f[k].src, f[k].dur, "T1", 105, "555")] :
      f \in [1..n -> KindPool] }

\* distinct call IDs, the duration value varies
FamDur(n) ==
  { [k \in 1..n |-> Rec(PosId(k), "Target", f[k], "T1", 105, "555")] :
      f \in [1..n -> DurationPool] }

\* distinct call IDs, entity name and bid vary
FamBid(n) ==
  { [k \in 1..n |-> Rec(PosId(k), "Target", Hms(0, 0, 15), f[k].name, f[k].bid, "555")] :
      f \in [1..n -> BidPool] }

\* good records with distinct call IDs among null entries and records
\* without a call ID
FamNull(n) ==
  { [k \in 1..n |-> IF f[k] = "null" THEN NullRec
                    ELSE IF f[k] = "noid" THEN GoodRec(<< >>)
                    ELSE GoodRec(PosId(k))] :
      f \in [1..n -> {"good", "null", "noid"}] }

\* [A(Target,15s), B(Target,18s), C(Target,10s), D(Caller,5s), E(Target,19s), F(Target,21s)]
WindowExample ==
  << Rec(PosId(1), "Target", Hms(0, 0, 15), "T1", 105, "555"),
     Rec(PosId(2), "Target", Hms(0, 0, 18), "T1", 105, "555"),
     Rec(PosId(3), "Target", Hms(0, 0, 10), "T1", 105, "555"),
     Rec(PosId(4), "Caller", Hms(0, 0, 5), "T1", 105, "555"),
     Rec(PosId(5), "Target", Hms(0, 0, 19), "T1", 105, "555"),
     Rec(PosId(6), "Target", Hms(0, 0, 21), "T1", 105, "555") >>

\* the same records with bid amounts [10.5, 10.5, 12.0, ...]
BidExample ==
  [k \in 1..6 |-> [WindowExample[k] EXCEPT !.bidAmount = IF k = 3 THEN 120 ELSE 105]]

HashIdPool ==
  {<<97>>, <<98>>, <<97, 97>>, <<97, 98>>, <<98, 97>>, << >>, Undefined}

HashInputs ==
  UNION { [1..n -> {GoodRec(id) : id \in HashIdPool}] : n \in 2..3 }

\* ------------------------------------------------------------------------
\* SpecGroup: the grouper scan
\* ------------------------------------------------------------------------

InitGroup ==
  /\ variant \in Variants
  /\ \/ \E n \in 2..MaxLen : batch \in FamIds(n)
     \/ \E n \in 3..MaxLen : batch \in FamKinds(n)
     \/ \E n \in 3..MaxFeatLen : batch \in FamDur(n)
     \/ \E n \in 3..MaxFeatLen : batch \in FamBid(n)
     \/ \E n \in 3..MaxLen : variant = "samebid" /\ batch \in FamNull(n)
     \/ batch \in {WindowExample, BidExample}
  /\ i = 0
  /\ usedCallIds = {}
  /\ result = << >>
  /\ win = << >>
  /\ batchId = Unset
  /\ page = PageIdle
  /\ AuxIdle
  /\ RunIdle

\* one iteration of the while loop
GroupStep ==
  /\ ScanRunning(batch, i)
  /\ LET st == ScanStep(variant, batch, [i |-> i, used |-> usedCallIds, result |-> result])
     IN  /\ i' = st.i
         /\ usedCallIds' = st.used
         /\ result' = st.result
  /\ UNCHANGED <<variant, batch, win, batchId, page>>
  /\ UNCHANGED runVars
  /\ UNCHANGED auxVars

NextGroup == GroupStep

SpecGroup == InitGroup /\ [][NextGroup]_vars

ScanDone == ~ScanRunning(batch, i)

\* the scan is not suspended: the loop has no await
SpecGroupLive == SpecGroup /\ WF_vars(GroupStep)

\* ------------------------------------------------------------------------
\* SpecHash: hashBatch
\* ------------------------------------------------------------------------

InitHash ==
  /\ variant \in Variants
  /\ win \in HashInputs
  /\ batchId = Unset
  /\ batch = << >>
  /\ i = 0
  /\ usedCallIds = {}
  /\ result = << >>
  /\ page = PageIdle
  /\ AuxIdle
  /\ RunIdle

\* const batchId = hashBatch(group)
HashStep ==
  /\ batchId = Unset
  /\ batchId' = hashBatch(variant, win)
  /\ UNCHANGED <<variant, win, batch, i, usedCallIds, result, page>>
  /\ UNCHANGED runVars
  /\ UNCHANGED auxVars

NextHash == HashStep

SpecHash == InitHash /\ [][NextHash]_vars

\* ------------------------------------------------------------------------
\* runReport: the runs of one detector
\* ------------------------------------------------------------------------

MaxRuns == 2        \* runs triggered in one behaviour
TickMinutes == 5    \* the clock advances in steps of this many minutes
MaxTime == 35       \* the clock stops here

Pids == 1..MaxRuns
Targets == <<"T1", "T2">>

Call(n, name, phone) == Rec(<<96 + n>>, "Target", Hms(0, 0, 15), name, 105, phone)

\* what the reporting API holds for the operating day
Scenarios ==
  { [T1 |-> <<Call(1, "T1", "555"), Call(2, "T1", "556"), Call(3, "T1", "557")>>,
     T2 |-> <<Call(4, "T2", "Restricted"), Call(5, "T2", "558"), Call(6, "T2", "559")>>],
    [T1 |-> <<Call(1, "T1", "555"), Call(2, "T1", "556"), Call(3, "T1", "557"),
              Call(4, "T1", "558"), Call(5, "T1", "559"), Call(6, "T1", "560")>>,
     T2 |-> << >>] }

\* getAllCallLogs (base): the records as mapped from the response
CallLogList(logs) ==
  [k \in DOMAIN logs |->
     [logs[k] EXCEPT !.callLengthInSeconds =
        IF Truthy(@) THEN @ ELSE StrDur(<<EmptyTok>>)]]

\* getInbounceCallId + getDetailsPeroCallLog (same-bid): records without a
\* call ID are dropped, a falsy duration becomes null
DetailList(logs) ==
  SelectSeq(
    [k \in DOMAIN logs |->
       [logs[k] EXCEPT !.callLengthInSeconds = IF Truthy(@) THEN @ ELSE NullDur,
                       !.inboundCallId = IF IdMissing(@) THEN << >> ELSE @]],
    LAMBDA r : r.inboundCallId # << >>)

RECURSIVE Distinct(_)
\* [...new Set(list)]: the first occurrence of each element, in order
Distinct(list) ==
  IF list = << >> THEN << >>
  ELSE LET front == Distinct(SubSeq(list, 1, Len(list) - 1))
           last == list[Len(list)]
       IN  IF \E k \in 1..Len(front) : front[k] = last THEN front ELSE Append(front, last)

InList(x, list) == \E k \in 1..Len(list) : list[k] = x

loadBatchCache_Fresh(v, file, day) == << >>

loadBatchCache_AnyDate(v, file, day) ==
  IF file.exists /\ file.json THEN file.batches ELSE << >>

\* loadBatchCache: the batches kept in memory after the load
loadBatchCache(v, file, day) ==
  IF file.exists /\ file.json /\ file.date = day
  THEN IF v = "samebid" THEN Distinct(file.batches) ELSE file.batches
  ELSE << >>

saveBatchCache_Empty(date, mem) == CacheData(date, << >>)

\* saveBatchCache: the file written
saveBatchCache(date, mem) == CacheData(date, mem)

\* group.some(call => call.inboundPhoneNumber.includes("Restricted"))
hasRestrictedNumber(g) == \E k \in 1..Len(g) : g[k].inboundPhoneNumber = "Restricted"

InitProc ==
  [pc |-> "start", date |-> "", mem |-> << >>, targets |-> << >>, groups |-> << >>,
   holds |-> FALSE, reclaimed |-> FALSE, clean |-> TRUE, listFailed |-> FALSE,
   afterFull |-> FALSE, fatal |-> FALSE, exitCode |-> Null, inFlight |-> FALSE]

Running(p) == proc[p].pc \notin {"start", "done", "skipped", "exited", "crashed", "dead"}

\* the exit code of a process that ends at pc: 1 is passed to process.exit
\* in the exception handlers, 0 elsewhere, and a process that runs to its
\* end exits with 0; a killed process has none
ExitCodeAt(pc) ==
  IF pc = "crashed" THEN 1 ELSE IF pc = "dead" THEN Null ELSE 0

\* a process that has ended: its memory is gone, the history flags stay
Ended(p, pc) ==
  [InitProc EXCEPT !.pc = pc, !.clean = proc[p].clean,
                   !.listFailed = proc[p].listFailed, !.afterFull = proc[p].afterFull,
                   !.fatal = proc[p].fatal, !.exitCode = ExitCodeAt(pc)]

InitRun ==
  /\ variant \in Variants
  /\ now = 0
  /\ today = "d2"
  /\ upstream \in Scenarios
  /\ lockFile \in IF variant = "samebid"
                  THEN {NoFile, CrashedToken, UnreadableToken, NoTimestampToken}
                  ELSE {NoFile}
  /\ cacheFile \in { NoFile,
                     UnreadableCache,
                     CacheData("d2", << >>),
                     CacheData("d1", <<hashBatch(variant, SubSeq(upstream.T1, 1, 3))>>),
                     CacheData("d2", <<hashBatch(variant, SubSeq(upstream.T1, 1, 3)),
                                       hashBatch(variant, SubSeq(upstream.T1, 1, 3))>>) }
  /\ sink = << >>
  /\ proc = [p \in Pids |-> InitProc]
  /\ fullRunDone = FALSE
  /\ batch = << >>
  /\ i = 0
  /\ usedCallIds = {}
  /\ result = << >>
  /\ win = << >>
  /\ batchId = Unset
  /\ page = PageIdle
  /\ AuxIdle

\* the scheduler starts the script: runReport() is entered; the runs are
\* numbered in the order in which the scheduler starts them
Spawn(p) ==
  /\ proc[p].pc = "start"
  /\ \A q \in Pids : q < p => proc[q].pc # "start"
  /\ proc' = [proc EXCEPT ![p].pc = IF variant = "samebid" THEN "acq_exists" ELSE "load",
                          ![p].afterFull = fullRunDone]
  /\ UNCHANGED pureVars
  /\ UNCHANGED <<now, today, upstream, lockFile, cacheFile, sink, fullRunDone>>

\* acquireLock: fs.existsSync(LOCK_FILE_PATH)
AcqExists(p) ==
  /\ proc[p].pc = "acq_exists"
  /\ proc' = [proc EXCEPT ![p].pc = IF lockFile.exists THEN "acq_read" ELSE "acq_write"]
  /\ UNCHANGED pureVars
  /\ UNCHANGED <<now, today, upstream, lockFile, cacheFile, sink, fullRunDone>>

AcqRead_Unlocks(p) ==
  /\ proc[p].pc = "acq_read"
  /\ lockFile' = IF StaleToken(now, lockFile) THEN lockFile ELSE NoFile
  /\ proc' = [proc EXCEPT ![p].pc =
                            IF StaleToken(now, lockFile) THEN "acq_unlink" ELSE "skipped",
                          ![p].exitCode =
                            IF StaleToken(now, lockFile) THEN Null ELSE ExitCodeAt("skipped")]
  /\ UNCHANGED pureVars
  /\ UNCHANGED <<now, today, upstream, cacheFile, sink, fullRunDone>>

\* acquireLock: readFileSync, the age test; a vanished file throws and the
\* catch returns false; false ends the process with process.exit(0)
AcqRead(p) ==
  /\ proc[p].pc = "acq_read"
  /\ proc' = [proc EXCEPT ![p].pc =
                            IF StaleToken(now, lockFile) THEN "acq_unlink" ELSE "skipped",
                          ![p].exitCode =
                            IF StaleToken(now, lockFile) THEN Null ELSE ExitCodeAt("skipped")]
  /\ UNCHANGED pureVars
  /\ UNCHANGED <<now, today, upstream, lockFile, cacheFile, sink, fullRunDone>>

\* acquireLock: fs.unlinkSync of the stale token
AcqUnlink(p) ==
  /\ proc[p].pc = "acq_unlink"
  /\ IF lockFile.exists
     THEN /\ lockFile' = NoFile
          /\ proc' = [proc EXCEPT ![p].pc = "acq_write", ![p].reclaimed = TRUE]
     ELSE /\ lockFile' = lockFile
          /\ proc' = [proc EXCEPT ![p].pc = "skipped",
                                  ![p].exitCode = ExitCodeAt("skipped")]
  /\ UNCHANGED pureVars
  /\ UNCHANGED <<now, today, upstream, cacheFile, sink, fullRunDone>>

\* acquireLock: fs.writeFileSync of the run's own token; returns true
AcqWrite(p) ==
  /\ proc[p].pc = "acq_write"
  /\ lockFile' = LockToken(p, now)
  /\ proc' = [proc EXCEPT ![p].pc = "load", ![p].holds = TRUE]
  /\ UNCHANGED pureVars
  /\ UNCHANGED <<now, today, upstream, cacheFile, sink, fullRunDone>>

\* loadBatchCache()
Load(p) ==
  /\ proc[p].pc = "load"
  /\ proc' = [proc EXCEPT ![p].pc = "targets",
                          ![p].date = today,
                          ![p].mem = loadBatchCache(variant, cacheFile, today)]
  /\ UNCHANGED pureVars
  /\ UNCHANGED <<now, today, upstream, lockFile, cacheFile, sink, fullRunDone>>

\* getAllTargets() returned the target list
TargetsOk(p) ==
  /\ proc[p].pc = "targets"
  /\ proc' = [proc EXCEPT ![p].pc = "fetch", ![p].targets = Targets]
  /\ UNCHANGED pureVars
  /\ UNCHANGED <<now, today, upstream, lockFile, cacheFile, sink, fullRunDone>>

TargetsFail_Continue(p) ==
  /\ proc[p].pc = "targets"
  /\ proc' = [proc EXCEPT ![p].pc = "fetch", ![p].targets = Targets,
                          ![p].clean = FALSE, ![p].listFailed = TRUE]
  /\ UNCHANGED pureVars
  /\ UNCHANGED <<now, today, upstream, lockFile, cacheFile, sink, fullRunDone>>

\* getAllTargets() returned null: the same-bid run saves the cache and
\* returns into its finally block, the base run returns
TargetsFail(p) ==
  /\ proc[p].pc = "targets"
  /\ IF variant = "samebid"
     THEN /\ cacheFile' = saveBatchCache(proc[p].date, proc[p].mem)
          /\ proc' = [proc EXCEPT ![p].pc = "final_save", ![p].clean = FALSE,
                                  ![p].listFailed = TRUE]
     ELSE /\ cacheFile' = cacheFile
          /\ proc' = [proc EXCEPT ![p].clean = FALSE, ![p].listFailed = TRUE,
                                  ![p].pc = "done", ![p].date = "", ![p].mem = << >>,
                                  ![p].exitCode = ExitCodeAt("done")]
  /\ UNCHANGED pureVars
  /\ UNCHANGED <<now, today, upstream, lockFile, sink, fullRunDone>>

\* the target loop: the next target's calls were retrieved and grouped
FetchOk(p) ==
  /\ proc[p].pc = "fetch"
  /\ proc[p].targets # << >>
  /\ LET raw == upstream[Head(proc[p].targets)]
         logs == IF variant = "samebid" THEN DetailList(raw) ELSE CallLogList(raw)
     IN  IF variant = "samebid" /\ logs = << >>
         THEN proc' = [proc EXCEPT ![p].targets = Tail(@)]
         ELSE proc' = [proc EXCEPT ![p].pc = "batch",
                                   ![p].groups = groupDropBatchByTargetStrict(variant, logs)]
  /\ UNCHANGED pureVars
  /\ UNCHANGED <<now, today, upstream, lockFile, cacheFile, sink, fullRunDone>>

NextEntity_Abort(ts) == << >>

\* `continue` in the target loop: the entities left after the current one
NextEntity(ts) == Tail(ts)

\* the target loop: retrieval failed (null); continue with the next target
FetchFail(p) ==
  /\ proc[p].pc = "fetch"
  /\ proc[p].targets # << >>
  /\ proc' = [proc EXCEPT ![p].targets = NextEntity(@), ![p].clean = FALSE]
  /\ UNCHANGED pureVars
  /\ UNCHANGED <<now, today, upstream, lockFile, cacheFile, sink, fullRunDone>>

\* the target loop of the same-bid run: a step throws inside the per-target
\* try; the catch saves the cache and continues with the next target
TargetThrows(p) ==
  /\ variant = "samebid"
  /\ proc[p].pc \in {"fetch", "batch", "notify"}
  /\ proc[p].targets # << >>
  /\ cacheFile' = saveBatchCache(proc[p].date, proc[p].mem)
  /\ proc' = [proc EXCEPT ![p].pc = "fetch",
                          ![p].targets = NextEntity(@),
                          ![p].groups = << >>,
                          ![p].clean = FALSE]
  /\ UNCHANGED pureVars
  /\ UNCHANGED <<now, today, upstream, lockFile, sink, fullRunDone>>

\* the target loop is over: the base run ends, the same-bid run enters finally
LoopEnd(p) ==
  /\ proc[p].pc = "fetch"
  /\ proc[p].targets = << >>
  /\ IF variant = "samebid"
     THEN /\ proc' = [proc EXCEPT ![p].pc = "final_save"]
          /\ fullRunDone' = fullRunDone
     ELSE /\ proc' = [proc EXCEPT ![p] = Ended(p, "done")]
          /\ fullRunDone' = (fullRunDone \/ proc[p].clean)
  /\ UNCHANGED pureVars
  /\ UNCHANGED <<now, today, upstream, lockFile, cacheFile, sink>>

\* the batch loop: hashBatch, the duplicate test, the insertion and its save
Dedup(p) ==
  /\ proc[p].pc = "batch"
  /\ proc[p].groups # << >>
  /\ LET id == hashBatch(variant, Head(proc[p].groups))
     IN  IF id = NoHash \/ InList(id, proc[p].mem)
         THEN /\ proc' = [proc EXCEPT ![p].groups = Tail(@)]
              /\ cacheFile' = cacheFile
         ELSE /\ proc' = [proc EXCEPT ![p].pc = "notify", ![p].mem = Append(@, id)]
              /\ cacheFile' = saveBatchCache(proc[p].date, Append(proc[p].mem, id))
  /\ UNCHANGED pureVars
  /\ UNCHANGED <<now, today, upstream, lockFile, sink, fullRunDone>>

Notify_Rollback(p) ==
  /\ proc[p].pc = "notify"
  /\ LET g == Head(proc[p].groups)
         id == hashBatch(variant, g)
     IN  IF variant = "samebid" /\ hasRestrictedNumber(g)
         THEN /\ sink' = sink
              /\ cacheFile' = cacheFile
              /\ proc' = [proc EXCEPT ![p].pc = "batch", ![p].groups = Tail(@)]
         ELSE \E ok \in BOOLEAN :
                /\ sink' = Append(sink, [id |-> id, by |-> p, ok |-> ok])
                /\ cacheFile' = IF ok THEN cacheFile
                                ELSE saveBatchCache(proc[p].date,
                                                    SelectSeq(proc[p].mem, LAMBDA x : x # id))
                /\ proc' = [proc EXCEPT ![p].pc = "batch", ![p].groups = Tail(@),
                                        ![p].inFlight = TRUE,
                                        ![p].mem = IF ok THEN @
                                                    ELSE SelectSeq(@, LAMBDA x : x # id)]
  /\ UNCHANGED pureVars
  /\ UNCHANGED <<now, today, upstream, lockFile, fullRunDone>>

\* the batch loop: the Restricted filter (same-bid only) and the call of
\* sendSlackMessage, which is not awaited: the post is in flight when the
\* call returns; ok is the outcome of the post, a failure of which
\* sendSlackMessage catches and logs
Notify(p) ==
  /\ proc[p].pc = "notify"
  /\ LET g == Head(proc[p].groups)
     IN  IF variant = "samebid" /\ hasRestrictedNumber(g)
         THEN /\ sink' = sink
              /\ proc' = [proc EXCEPT ![p].pc = "batch", ![p].groups = Tail(@)]
         ELSE /\ \E ok \in BOOLEAN :
                   sink' = Append(sink, [id |-> hashBatch(variant, g), by |-> p,
                                         ok |-> ok])
              /\ proc' = [proc EXCEPT ![p].pc = "batch", ![p].groups = Tail(@),
                                      ![p].inFlight = TRUE]
  /\ cacheFile' = cacheFile
  /\ UNCHANGED pureVars
  /\ UNCHANGED <<now, today, upstream, lockFile, fullRunDone>>

\* the posts of sendSlackMessage settle while the run awaits the requests of
\* the next target: the event loop runs their continuations only then
Delivered(p) ==
  /\ proc[p].pc = "fetch"
  /\ proc[p].targets # << >>
  /\ proc[p].inFlight
  /\ proc' = [proc EXCEPT ![p].inFlight = FALSE]
  /\ UNCHANGED pureVars
  /\ UNCHANGED <<now, today, upstream, lockFile, cacheFile, sink, fullRunDone>>

\* the batch loop is over: the same-bid run saves the cache; next target
TargetDone(p) ==
  /\ proc[p].pc = "batch"
  /\ proc[p].groups = << >>
  /\ cacheFile' = IF variant = "samebid"
                  THEN saveBatchCache(proc[p].date, proc[p].mem)
                  ELSE cacheFile
  /\ proc' = [proc EXCEPT ![p].pc = "fetch", ![p].targets = Tail(@)]
  /\ UNCHANGED pureVars
  /\ UNCHANGED <<now, today, upstream, lockFile, sink, fullRunDone>>

FinalSave_Skip(p) ==
  /\ proc[p].pc = "final_save"
  /\ cacheFile' = cacheFile
  /\ proc' = [proc EXCEPT ![p].pc = "release"]
  /\ UNCHANGED pureVars
  /\ UNCHANGED <<now, today, upstream, lockFile, sink, fullRunDone>>

\* finally: saveBatchCache()
FinalSave(p) ==
  /\ proc[p].pc = "final_save"
  /\ cacheFile' = saveBatchCache(proc[p].date, proc[p].mem)
  /\ proc' = [proc EXCEPT ![p].pc = "release"]
  /\ UNCHANGED pureVars
  /\ UNCHANGED <<now, today, upstream, lockFile, sink, fullRunDone>>

\* finally: releaseLock() removes the lock file if there is one
Release(p) ==
  /\ proc[p].pc = "release"
  /\ lockFile' = releaseLock(lockFile)
  /\ proc' = [proc EXCEPT ![p] = Ended(p, "done")]
  /\ fullRunDone' = (fullRunDone \/ proc[p].clean)
  /\ UNCHANGED pureVars
  /\ UNCHANGED <<now, today, upstream, cacheFile, sink>>

\* the process is killed or crashes: nothing is cleaned up
Kill(p) ==
  /\ Running(p)
  /\ proc' = [proc EXCEPT ![p] = Ended(p, "dead")]
  /\ UNCHANGED pureVars
  /\ UNCHANGED <<now, today, upstream, lockFile, cacheFile, sink, fullRunDone>>

\* an error thrown in the try block of the same-bid runReport outside the
\* per-target try: the catch logs it and the finally block follows
Fatal(p) ==
  /\ variant = "samebid"
  /\ proc[p].pc \in {"targets", "fetch"}
  /\ proc' = [proc EXCEPT ![p].pc = "final_save", ![p].fatal = TRUE,
                          ![p].clean = FALSE]
  /\ UNCHANGED pureVars
  /\ UNCHANGED <<now, today, upstream, lockFile, cacheFile, sink, fullRunDone>>

\* an error thrown in the same-bid runReport ahead of its try block rejects
\* the promise of runReport(); the uncaughtException and unhandledRejection
\* handlers call releaseLock() and process.exit(1)
Uncaught(p) ==
  /\ variant = "samebid"
  /\ proc[p].pc = "load"
  /\ lockFile' = releaseLock(lockFile)
  /\ proc' = [proc EXCEPT ![p] = Ended(p, "crashed")]
  /\ UNCHANGED pureVars
  /\ UNCHANGED <<now, today, upstream, cacheFile, sink, fullRunDone>>

\* SIGINT or SIGTERM reaches the same-bid run while it awaits a request: the
\* handler calls releaseLock() and process.exit(0)
Signal(p) ==
  /\ variant = "samebid"
  /\ proc[p].pc \in {"targets", "fetch"}
  /\ lockFile' = releaseLock(lockFile)
  /\ proc' = [proc EXCEPT ![p] = Ended(p, "exited")]
  /\ UNCHANGED pureVars
  /\ UNCHANGED <<now, today, upstream, cacheFile, sink, fullRunDone>>

Tick ==
  /\ now + TickMinutes <= MaxTime
  /\ now' = now + TickMinutes
  /\ UNCHANGED pureVars
  /\ UNCHANGED <<today, upstream, lockFile, cacheFile, sink, proc, fullRunDone>>

\* the clock moves past the age at which a lock token is stale
TickStale ==
  /\ now + MAX_LOCK_AGE + TickMinutes <= MaxTime
  /\ now' = now + MAX_LOCK_AGE + TickMinutes
  /\ UNCHANGED pureVars
  /\ UNCHANGED <<today, upstream, lockFile, cacheFile, sink, proc, fullRunDone>>

\* runs may overlap; the clock moves in steps that make a token stale
\* (the settling of the posts, on which no step of a run depends, is
\* followed in SpecAsync only)
Next ==
  \/ \E p \in Pids : Spawn(p)
  \/ \E p \in Pids : AcqExists(p)
  \/ \E p \in Pids : AcqRead(p)
  \/ \E p \in Pids : AcqUnlink(p)
  \/ \E p \in Pids : AcqWrite(p)
  \/ \E p \in Pids : Load(p)
  \/ \E p \in Pids : TargetsOk(p)
  \/ \E p \in Pids : TargetsFail(p)
  \/ \E p \in Pids : FetchOk(p)
  \/ \E p \in Pids : FetchFail(p)
  \/ \E p \in Pids : TargetThrows(p)
  \/ \E p \in Pids : LoopEnd(p)
  \/ \E p \in Pids : Dedup(p)
  \/ \E p \in Pids : Notify(p)
  \/ \E p \in Pids : TargetDone(p)
  \/ \E p \in Pids : FinalSave(p)
  \/ \E p \in Pids : Release(p)
  \/ \E p \in Pids : Kill(p)
  \/ \E p \in Pids : Signal(p)
  \/ \E p \in Pids : Fatal(p)
  \/ \E p \in Pids : Uncaught(p)
  \/ TickStale

Spec == InitRun /\ [][Next]_vars

\* a run starts only when no other run is executing
SpawnAlone(p) == (\A q \in Pids : ~Running(q)) /\ Spawn(p)

NextSeq ==
  \/ \E p \in Pids : SpawnAlone(p)
  \/ \E p \in Pids : AcqExists(p)
  \/ \E p \in Pids : AcqRead(p)
  \/ \E p \in Pids : AcqUnlink(p)
  \/ \E p \in Pids : AcqWrite(p)
  \/ \E p \in Pids : Load(p)
  \/ \E p \in Pids : TargetsOk(p)
  \/ \E p \in Pids : TargetsFail(p)
  \/ \E p \in Pids : FetchOk(p)
  \/ \E p \in Pids : FetchFail(p)
  \/ \E p \in Pids : TargetThrows(p)
  \/ \E p \in Pids : LoopEnd(p)
  \/ \E p \in Pids : Dedup(p)
  \/ \E p \in Pids : Notify(p)
  \/ \E p \in Pids : TargetDone(p)
  \/ \E p \in Pids : FinalSave(p)
  \/ \E p \in Pids : Release(p)
  \/ \E p \in Pids : Kill(p)
  \/ \E p \in Pids : Signal(p)
  \/ \E p \in Pids : Fatal(p)
  \/ \E p \in Pids : Uncaught(p)
  \/ Tick

SpecSeq == InitRun /\ [][NextSeq]_vars

\* sequential runs, with the settling of the posts of sendSlackMessage
NextAsync ==
  \/ \E p \in Pids : SpawnAlone(p)
  \/ \E p \in Pids : AcqExists(p)
  \/ \E p \in Pids : AcqRead(p)
  \/ \E p \in Pids : AcqUnlink(p)
  \/ \E p \in Pids : AcqWrite(p)
  \/ \E p \in Pids : Load(p)
  \/ \E p \in Pids : TargetsOk(p)
  \/ \E p \in Pids : TargetsFail(p)
  \/ \E p \in Pids : FetchOk(p)
  \/ \E p \in Pids : FetchFail(p)
  \/ \E p \in Pids : TargetThrows(p)
  \/ \E p \in Pids : LoopEnd(p)
  \/ \E p \in Pids : Dedup(p)
  \/ \E p \in Pids : Notify(p)
  \/ \E p \in Pids : Delivered(p)
  \/ \E p \in Pids : TargetDone(p)
  \/ \E p \in Pids : FinalSave(p)
  \/ \E p \in Pids : Release(p)
  \/ \E p \in Pids : Kill(p)
  \/ \E p \in Pids : Signal(p)
  \/ \E p \in Pids : Fatal(p)
  \/ \E p \in Pids : Uncaught(p)
  \/ Tick

SpecAsync == InitRun /\ [][NextAsync]_vars


\* the scheduler fires again after a run has ended: a new process
Restart(p) ==
  /\ proc[p].pc \in {"done", "skipped"}
  /\ proc' = [proc EXCEPT ![p] = InitProc]
  /\ UNCHANGED pureVars
  /\ UNCHANGED <<now, today, upstream, lockFile, cacheFile, sink, fullRunDone>>

\* the same-bid detector, fired periodically, no process killed
InitLive == InitRun /\ variant = "samebid"

NextLive ==
  \/ \E p \in Pids : SpawnAlone(p)
  \/ \E p \in Pids : AcqExists(p)
  \/ \E p \in Pids : AcqRead(p)
  \/ \E p \in Pids : AcqUnlink(p)
  \/ \E p \in Pids : AcqWrite(p)
  \/ \E p \in Pids : Load(p)
  \/ \E p \in Pids : TargetsOk(p)
  \/ \E p \in Pids : TargetsFail(p)
  \/ \E p \in Pids : FetchOk(p)
  \/ \E p \in Pids : FetchFail(p)
  \/ \E p \in Pids : TargetThrows(p)
  \/ \E p \in Pids : LoopEnd(p)
  \/ \E p \in Pids : Dedup(p)
  \/ \E p \in Pids : Notify(p)
  \/ \E p \in Pids : TargetDone(p)
  \/ \E p \in Pids : FinalSave(p)
  \/ \E p \in Pids : Release(p)
  \/ \E p \in Pids : Restart(p)
  \/ Tick

\* the cron firings and the steps of acquireLock() of the process in slot p
FairAcquire(p) ==
  /\ WF_vars(SpawnAlone(p))
  /\ WF_vars(Restart(p))
  /\ WF_vars(AcqExists(p))
  /\ WF_vars(AcqRead(p))
  /\ WF_vars(AcqUnlink(p))
  /\ WF_vars(AcqWrite(p))

\* time passes, the cron keeps firing and a started process gets through its
\* synchronous acquireLock(); nothing is assumed of the steps after it
SpecLive ==
  /\ InitLive
  /\ [][NextLive]_vars
  /\ WF_vars(Tick)
  /\ \A p \in Pids : FairAcquire(p)

\* ------------------------------------------------------------------------
\* SpecPage: the retrieval of one entity's calls
\* ------------------------------------------------------------------------

\* the numbers of calls the entity has in the window; with the largest the
\* reporting API answers every listing request of the loop with a full page
CallCounts == {0, 1, 49, 50, 51, 149, 150, 151, 299, 300, 301, 9999, 10001, 20000}

InitPage ==
  /\ variant \in Variants
  /\ batch = << >>
  /\ i = 0
  /\ usedCallIds = {}
  /\ result = << >>
  /\ win = << >>
  /\ batchId = Unset
  /\ \E n \in CallCounts :
       page = [PageIdle EXCEPT !.phase = "list", !.n = n]
  /\ RunIdle
  /\ AuxIdle

\* the number of listing requests that continue the loop of getInbounceCallId
NextOffset(offset, data) ==
  IF Len(data) < pageSize THEN offset ELSE offset + pageSize

hasMore(offset, data) ==
  /\ Len(data) # 0
  /\ Len(data) >= pageSize
  /\ NextOffset(offset, data) < PageLimit

\* getInbounceCallId, one iteration of its loop whose request is answered;
\* when the loop ends the list is returned, or null for an empty list, on
\* which runReport goes on to the next target; runReport cuts the list it
\* gets into chunks with batchCallIds
PageOk ==
  /\ variant = "samebid"
  /\ page.phase = "list"
  /\ LET data == UpstreamPage(page.n, page.offset)
         list == page.allCallLogList \o data
     IN page' = [page EXCEPT
                   !.allCallLogList = list,
                   !.offset = NextOffset(page.offset, data),
                   !.batchIndex = 0,
                   !.batchedCallLogs = IF hasMore(page.offset, data) THEN << >>
                                       ELSE batchCallIds(list),
                   !.phase = IF hasMore(page.offset, data) THEN "list"
                             ELSE IF list = << >> THEN "skipped"
                             ELSE "chunks"]
  /\ UNCHANGED <<variant, batch, i, usedCallIds, result, win, batchId>>
  /\ UNCHANGED runVars
  /\ UNCHANGED auxVars

\* getInbounceCallId, a listing request fails: the catch around the loop
\* returns null, and runReport goes on to the next target
PageFail ==
  /\ variant = "samebid"
  /\ page.phase = "list"
  /\ page' = [page EXCEPT !.allCallLogList = << >>, !.phase = "skipped",
                          !.failed = "page"]
  /\ UNCHANGED <<variant, batch, i, usedCallIds, result, win, batchId>>
  /\ UNCHANGED runVars
  /\ UNCHANGED auxVars

\* runReport, one iteration of the loop over the chunks: the detail request
\* is answered
ChunkOk ==
  /\ page.phase = "chunks"
  /\ page.batchIndex < Len(page.batchedCallLogs)
  /\ LET callLogs == page.batchedCallLogs[page.batchIndex + 1]
     IN page' = [page EXCEPT
                   !.allLogs = page.allLogs \o UpstreamDetails(callLogs),
                   !.batchIndex = page.batchIndex + 1]
  /\ UNCHANGED <<variant, batch, i, usedCallIds, result, win, batchId>>
  /\ UNCHANGED runVars
  /\ UNCHANGED auxVars

\* runReport, one iteration of the loop over the chunks: the detail request
\* fails, getDetailsPeroCallLog returns null and the loop continues
ChunkFail ==
  /\ page.phase = "chunks"
  /\ page.batchIndex < Len(page.batchedCallLogs)
  /\ page.failed = "none"
  /\ page' = [page EXCEPT !.batchIndex = page.batchIndex + 1,
                          !.failed = "chunk",
                          !.lost = page.batchIndex + 1]
  /\ UNCHANGED <<variant, batch, i, usedCallIds, result, win, batchId>>
  /\ UNCHANGED runVars
  /\ UNCHANGED auxVars

\* runReport, after the last chunk: allLogs goes to the grouper
HandOver ==
  /\ page.phase = "chunks"
  /\ page.batchIndex = Len(page.batchedCallLogs)
  /\ page' = [page EXCEPT !.phase = "grouped"]
  /\ UNCHANGED <<variant, batch, i, usedCallIds, result, win, batchId>>
  /\ UNCHANGED runVars
  /\ UNCHANGED auxVars

\* getAllCallLogs of the base variant: one request for pageSize records from
\* offset 0, whose answer goes to the grouper
BaseFetchOk ==
  /\ variant = "base"
  /\ page.phase = "list"
  /\ page' = [page EXCEPT !.allLogs = UpstreamPage(page.n, 0),
                          !.phase = "grouped"]
  /\ UNCHANGED <<variant, batch, i, usedCallIds, result, win, batchId>>
  /\ UNCHANGED runVars
  /\ UNCHANGED auxVars

\* getAllCallLogs of the base variant: the request fails, null is returned
\* and runReport goes on to the next target
BaseFetchFail ==
  /\ variant = "base"
  /\ page.phase = "list"
  /\ page' = [page EXCEPT !.phase = "skipped", !.failed = "page"]
  /\ UNCHANGED <<variant, batch, i, usedCallIds, result, win, batchId>>
  /\ UNCHANGED runVars
  /\ UNCHANGED auxVars

NextPage ==
  \/ PageOk
  \/ PageFail
  \/ ChunkOk
  \/ ChunkFail
  \/ HandOver
  \/ BaseFetchOk
  \/ BaseFetchFail

SpecPage == InitPage /\ [][NextPage]_vars

\* ------------------------------------------------------------------------
\* SpecBatch: batchCallIds
\* ------------------------------------------------------------------------

\* the lengths of the lists and the ends of the runs of null entries
BatchLens == {0, 1, 49, 50, 51, 99, 100, 101, 150}
NullEdges == {1, 2, 49, 50, 51, 52, 99, 100, 101, 150}

\* the list of n entries whose entries a, a + step, ... up to b are null and
\* whose other entries are call IDs
CallIdsWithNulls(n, a, b, step) ==
  [k \in 1..n |-> IF a <= k /\ k <= b /\ (k - a) % step = 0 THEN Null ELSE k]

InitBatch ==
  /\ variant = "samebid"
  /\ batch = << >>
  /\ i = 0
  /\ usedCallIds = {}
  /\ result = << >>
  /\ win = << >>
  /\ batchId = Unset
  /\ \E n \in BatchLens, a \in NullEdges, b \in NullEdges, step \in 1..2 :
       page = [PageIdle EXCEPT !.phase = "ids",
                               !.allCallLogList = CallIdsWithNulls(n, a, b, step)]
  /\ RunIdle
  /\ AuxIdle

\* batchCallIds(allCallLogs)
BatchStep ==
  /\ page.phase = "ids"
  /\ page' = [page EXCEPT !.phase = "batched",
                          !.batchedCallLogs = batchCallIds(page.allCallLogList)]
  /\ UNCHANGED <<variant, batch, i, usedCallIds, result, win, batchId>>
  /\ UNCHANGED runVars
  /\ UNCHANGED auxVars

NextBatch == BatchStep

SpecBatch == InitBatch /\ [][NextBatch]_vars

\* ------------------------------------------------------------------------
\* SpecWindow: a process start computes its window and the day of its store
\* ------------------------------------------------------------------------

WindowDays == 2    \* the starts are drawn from days 1 .. WindowDays
StartMinutes == {0, 10, 20, 30, 40, 50}

\* the instants at which a process is started: every ten minutes
Instants ==
  {DateUTC(d, h, m, 0, 0) : d \in 1..WindowDays, h \in 0..23, m \in StartMinutes}

\* the hour of the day in America/New_York
HourEST(t, off) == ((t - off * HourMs) % DayMs) \div HourMs

\* the scheduler's cron expression for both detectors: hours 9-17
ScheduledStart(t, off) == HourEST(t, off) \in 9..17

InitWindow ==
  /\ variant \in Variants
  /\ batch = << >>
  /\ i = 0
  /\ usedCallIds = {}
  /\ result = << >>
  /\ win = << >>
  /\ batchId = Unset
  /\ page = PageIdle
  /\ \E t \in Instants, off \in UtcOffsets :
       clock = [ClockIdle EXCEPT !.phase = "start", !.now = t, !.utcOffset = off]
  /\ alerter = AlerterIdle
  /\ RunIdle

\* module load: 'const { reportStart, reportEnd } = currentDate()', and the
\* getTodayEST() of loadBatchCache
ComputeWindow ==
  /\ clock.phase = "start"
  /\ clock' = [clock EXCEPT
       !.phase = "computed",
       !.reportStart = currentDate(clock.now, clock.utcOffset).reportStart,
       !.reportEnd = currentDate(clock.now, clock.utcOffset).reportEnd,
       !.today = getTodayEST(clock.now, clock.utcOffset)]
  /\ UNCHANGED <<variant, batch, i, usedCallIds, result, win, batchId, page,
                 alerter>>
  /\ UNCHANGED runVars

NextWindow == ComputeWindow

SpecWindow == InitWindow /\ [][NextWindow]_vars

\* ------------------------------------------------------------------------
\* SpecNoAnswer: pulls and scheduled ticks of the no-answer detector
\* ------------------------------------------------------------------------

NoAnswerDays == 2   \* the clock runs over days 1 .. NoAnswerDays

\* the hours of the day the clock stops at, in order
HourMarks == <<0, 1, 2, 8, 9, 16, 17, 23>>
StartDows == {5, 6, 0}   \* the first day is a Friday, a Saturday or a Sunday

\* the answers of the reporting API for one target: no record, a record
\* without the two fields, and records around the three thresholds
Stat(d, n) == [present |-> TRUE, targetDialed |-> d, noAnswer |-> n]
NoRecord == [present |-> FALSE]
StatPool(t) ==
  IF t = "T1"
    THEN {NoRecord, Stat(Null, Null), Stat(29, 6), Stat(30, 5), Stat(30, 6),
          Stat(59, 12), Stat(60, 11), Stat(60, 12)}
    ELSE {NoRecord, Stat(30, 6), Stat(60, 12)}

\* data.report.records: at most one record for each target
RecordSets ==
  {{[targetName |-> t, targetDialed |-> f[t].targetDialed,
     noAnswer |-> f[t].noAnswer] : t \in {x \in AlertTargets : f[x].present}} :
     f \in {g \in [AlertTargets -> UNION {StatPool(t) : t \in AlertTargets}] :
              \A t \in AlertTargets : g[t] \in StatPool(t)}}

\* what the two collaborators do during one pull
PullOutcomes == {"fetch fails", "send fails", "ok"}

\* the weekday of the current day; startDow is the weekday of day 1
Weekday(a) == (a.startDow + a.day - 1) % 7

InitNoAnswer ==
  /\ variant = "base"
  /\ batch = << >>
  /\ i = 0
  /\ usedCallIds = {}
  /\ result = << >>
  /\ win = << >>
  /\ batchId = Unset
  /\ page = PageIdle
  /\ clock = ClockIdle
  /\ \E dow \in StartDows,
        file \in {[exists |-> FALSE], UnreadableAlertCache,
                  AlertCache(EmptyObject),
                  AlertCache([d \in {0} |-> [NoEntries EXCEPT !["T1"] = 30]]),
                  AlertCache([d \in {1} |-> NoEntries])} :
       alerter = [AlerterIdle EXCEPT !.phase = "ready", !.startDow = dow,
                                     !.day = 1, !.file = file,
                                     !.timer = "armed"]
  /\ RunIdle

\* pullAndAlert, from the answer of the reporting API to the saved cache;
\* 'fetched' is whether ensureToken and fetchInsightsEvents returned,
\* 'delivered' whether sendSlackAlert did
pullAndAlert(a, records, fetched, delivered) ==
  LET cache == loadAlertCache(a.file, a.day, a.hour)
      loaded == FileAfterLoad(a.file, a.day, a.hour)
      todayCache == TodayCache(cache, a.day)
      toAlert == ToAlert(records, todayCache)
      Alerted(name) == \E t \in toAlert : t.targetName = name
      DialedOf(name) == (CHOOSE t \in toAlert : t.targetName = name).targetDialed
      newToday == [name \in AlertTargets |->
                     IF Alerted(name) THEN DialedOf(name) ELSE todayCache[name]]
      newCache == [d \in DOMAIN cache \cup {a.day} |->
                     IF d = a.day THEN newToday ELSE cache[d]]
  IN  IF ~fetched
        THEN [a EXCEPT !.outcome = "threw", !.sent = {}]
      ELSE IF toAlert = {}
        THEN [a EXCEPT !.outcome = "pulled", !.sent = {}, !.file = loaded]
      ELSE IF ~delivered
        THEN [a EXCEPT !.outcome = "threw", !.sent = {}, !.file = loaded]
      ELSE [a EXCEPT
              !.outcome = "pulled",
              !.file = AlertCache(newCache),
              !.sent = {[targetName |-> t.targetName,
                         targetDialed |-> t.targetDialed,
                         noAnswer |-> t.noAnswer,
                         prev |-> a.lastAlert[t.targetName]] : t \in toAlert},
              !.lastAlert = [name \in AlertTargets |->
                               IF Alerted(name) THEN DialedOf(name)
                                                ELSE a.lastAlert[name]]]

\* 'node targetNoAnswer.js pull': one pullAndAlert, whatever the time
Pull ==
  /\ alerter.phase = "ready"
  /\ \E records \in RecordSets, o \in PullOutcomes :
       alerter' = [pullAndAlert(alerter, records, o # "fetch fails", o = "ok")
                     EXCEPT !.outcome = alerter.outcome]
  /\ UNCHANGED <<variant, batch, i, usedCallIds, result, win, batchId, page,
                 clock>>
  /\ UNCHANGED runVars

\* schedule mode: tick() runs runOnce inside try/catch, then setTimeout(tick)
TickAlerter ==
  /\ alerter.phase = "ready"
  /\ alerter.timer = "armed"
  /\ \E records \in RecordSets, o \in PullOutcomes :
       alerter' =
         IF ~isWithin9to5EST(Weekday(alerter), alerter.hour)
           THEN [alerter EXCEPT !.outcome = "skipped", !.sent = {},
                                !.timer = "armed"]
           ELSE [pullAndAlert(alerter, records, o # "fetch fails", o = "ok")
                   EXCEPT !.timer = "armed"]
  /\ UNCHANGED <<variant, batch, i, usedCallIds, result, win, batchId, page,
                 clock>>
  /\ UNCHANGED runVars

\* time passes to the next hour mark; the history of the alerts of today
\* starts again with the day
Advance ==
  /\ alerter.phase = "ready"
  /\ alerter.mark < Len(HourMarks) \/ alerter.day < NoAnswerDays
  /\ alerter' =
       IF alerter.mark < Len(HourMarks)
         THEN [alerter EXCEPT !.mark = @ + 1, !.hour = HourMarks[alerter.mark + 1],
                              !.outcome = "none", !.sent = {}]
         ELSE [alerter EXCEPT !.mark = 1, !.hour = HourMarks[1], !.day = @ + 1,
                              !.outcome = "none", !.sent = {},
                              !.lastAlert = NoEntries]
  /\ UNCHANGED <<variant, batch, i, usedCallIds, result, win, batchId, page,
                 clock>>
  /\ UNCHANGED runVars

NextNoAnswer == Pull \/ TickAlerter \/ Advance

SpecNoAnswer == InitNoAnswer /\ [][NextNoAnswer]_vars

\* ========================================================================
\* Properties
\* ========================================================================

BatchIds(g) == {g[1].inboundCallId, g[2].inboundCallId, g[3].inboundCallId}

\* The duration a well-formed value states: integer seconds, or H:M:S.
WellFormedDur(d) ==
  \/ d.t = "num"
  \/ /\ d.t = "str"
     /\ \A n \in DOMAIN d.parts : d.parts[n].k = "int"
     /\ Len(d.parts) \in {1, 3}

SecondsOf(d) ==
  IF d.t = "num" THEN d.v
  ELSE IF Len(d.parts) = 3
       THEN d.parts[1].v * 3600 + d.parts[2].v * 60 + d.parts[3].v
       ELSE d.parts[1].v

ShortCall(r) ==
  WellFormedDur(r.callLengthInSeconds) /\ SecondsOf(r.callLengthInSeconds) <= 20

\* no entry is null, every record has a call ID, a well-formed duration and
\* an entity name
InputWellFormed(b) ==
  \A k \in 1..Len(b) :
    /\ ~b[k].isNull
    /\ ~IdMissing(b[k].inboundCallId)
    /\ WellFormedDur(b[k].callLengthInSeconds)
    /\ b[k].targetName # ""

\* ---- C4 ----
\* C4: no call ID appears in more than one emitted batch, for every input
\* sequence and either variant (also among the batches emitted so far).
C4_Disjoint ==
  \A m, n \in 1..Len(result) :
    m < n => BatchIds(result[m]) \cap BatchIds(result[n]) = {}

\* C4 witness: a finished scan of six good records in which the second triple
\* was refused because its first call ID was consumed by the first batch.
C4_Witness ==
  /\ ScanDone
  /\ Len(batch) = 6
  /\ \A k \in 1..6 : batch[k] = GoodRec(batch[k].inboundCallId)
                     /\ ~IdMissing(batch[k].inboundCallId)
  /\ Len(result) = 1
  /\ batch[4].inboundCallId \in BatchIds(result[1])

\* ---- C5 ----
\* C5: every emitted batch is three records from adjacent input positions,
\* each Target-terminated and, when its duration is well-formed, at most 20
\* seconds long; and the windowing example yields exactly the batch [A,B,C].
C5_AdjacentTargetShort ==
  /\ \A n \in 1..Len(result) :
       /\ \E k \in 0..(Len(batch) - 3) :
            result[n] = <<batch[k + 1], batch[k + 2], batch[k + 3]>>
       /\ \A m \in 1..3 :
            /\ result[n][m].endCallSource = "Target"
            /\ WellFormedDur(result[n][m].callLengthInSeconds)
                 => SecondsOf(result[n][m].callLengthInSeconds) <= 20
  /\ (ScanDone /\ batch = WindowExample) => result = <<SubSeq(WindowExample, 1, 3)>>

\* ---- C6 ----
RefAccept(v, used, a, b, c) ==
  /\ BatchIds(<<a, b, c>>) \cap used = {}
  /\ a.endCallSource = "Target" /\ b.endCallSource = "Target" /\ c.endCallSource = "Target"
  /\ ShortCall(a) /\ ShortCall(b) /\ ShortCall(c)
  /\ v = "samebid" =>
       /\ a.targetName = b.targetName /\ b.targetName = c.targetName
       /\ a.bidAmount # Null
       /\ a.bidAmount = b.bidAmount /\ b.bidAmount = c.bidAmount

RECURSIVE RefScan(_, _, _, _)
RefScan(v, b, cur, used) ==
  IF cur + 3 > Len(b) THEN << >>
  ELSE IF RefAccept(v, used, b[cur + 1], b[cur + 2], b[cur + 3])
       THEN <<SubSeq(b, cur + 1, cur + 3)>>
              \o RefScan(v, b, cur + 3, used \cup BatchIds(SubSeq(b, cur + 1, cur + 3)))
       ELSE RefScan(v, b, cur + 1, used)

\* C6: on every well-formed input the finished scan returns exactly the
\* batches of the reference greedy forward scan.
C6_MatchesReference ==
  (ScanDone /\ InputWellFormed(batch)) => result = RefScan(variant, batch, 0, {})

\* ---- C7 ----
BidsDiffer(b) ==
  \/ \E k \in 1..3 : b[k].bidAmount = Null
  \/ b[1].bidAmount # b[2].bidAmount
  \/ b[2].bidAmount # b[3].bidAmount

\* C7: a same-bid batch has one entity name and three equal non-null bids; a
\* triple that satisfies the rest of the predicate but whose bids differ or
\* contain a null yields no batch in the same-bid variant and one in the base
\* variant (in particular the example with bids [10.5, 10.5, 12.0]).
C7_SameBid ==
  /\ variant = "samebid" =>
       \A n \in 1..Len(result) :
         /\ result[n][1].targetName = result[n][2].targetName
         /\ result[n][2].targetName = result[n][3].targetName
         /\ ~BidsDiffer(result[n])
  /\ ( /\ ScanDone
       /\ Len(batch) = 3
       /\ InputWellFormed(batch)
       /\ Cardinality(BatchIds(batch)) = 3
       /\ \A k \in 1..3 : batch[k].endCallSource = "Target" /\ ShortCall(batch[k])
       /\ BidsDiffer(batch) )
     => result = IF variant = "samebid" THEN << >> ELSE <<batch>>
  /\ (ScanDone /\ batch = BidExample)
     => result = IF variant = "samebid" THEN << >> ELSE <<SubSeq(BidExample, 1, 3)>>

\* C7 witness: the same-bid variant has emitted a batch on the bid 12.0.
C7_Witness ==
  /\ variant = "samebid"
  /\ ScanDone
  /\ Len(result) = 1
  /\ result[1][1].bidAmount = 120

NoNumber(d) ==
  \/ d.t = "null"
  \/ /\ d.t = "str"
     /\ \/ d.parts = <<EmptyTok>>
        \/ Len(d.parts) = 3 /\ \E n \in 1..3 : d.parts[n].k \in {"junk", "intjunk"}
        \/ Len(d.parts) # 3 /\ d.parts[1].k \in {"empty", "junk"}

Perms3 == {p \in [1..3 -> 1..3] : \A x, y \in 1..3 : p[x] = p[y] => x = y}
PermuteWin(w, p) == [k \in 1..3 |-> w[p[k]]]
AllPresent(w) == \A k \in 1..Len(w) : ~IdMissing(w[k].inboundCallId)
IdSet(w) == {w[k].inboundCallId : k \in 1..Len(w)}

\* C9: for three call IDs every permutation of the batch has the identity of
\* the batch, and a batch with another set of call IDs has another identity.
C9_OrderIndependent ==
  (batchId # Unset /\ Len(win) = 3 /\ AllPresent(win)) =>
    /\ batchId # NoHash
    /\ \A p \in Perms3 : hashBatch(variant, PermuteWin(win, p)) = batchId
    /\ \A other \in HashInputs :
         (Len(other) = 3 /\ AllPresent(other) /\ IdSet(other) # IdSet(win))
           => hashBatch(variant, other) # batchId

\* C9 witness: a hashed window whose three call IDs arrive out of order.
C9_Witness ==
  /\ batchId # Unset
  /\ Len(win) = 3
  /\ win[1].inboundCallId = <<98, 97>>
  /\ win[2].inboundCallId = <<97>>
  /\ win[3].inboundCallId = <<97, 98>>

\* ---- C10 ----
\* C10: a batch of three in which a call ID is missing or empty yields no
\* identity.
C10_NoIdentityWhenIdMissing ==
  (batchId # Unset /\ Len(win) = 3 /\ ~AllPresent(win)) => batchId = NoHash

\* ---- C1 ----
\* C1: at most one run at a time is between a successful acquire() and its
\* own release().
C1_MutualExclusion == Cardinality({p \in Pids : proc[p].holds}) <= 1

\* ---- C2 ----
\* C2: no batch identity is handed to the messaging sink more than once,
\* whatever the runs, their overlap and their crashes.
C2_NoDoubleDispatch ==
  \A m, n \in 1..Len(sink) : m < n => sink[m].id # sink[n].id

\* ---- C3 ----
\* the identities stored for the current operating day
StoredIds ==
  IF cacheFile.exists /\ cacheFile.json /\ cacheFile.date = today
  THEN {cacheFile.batches[k] : k \in 1..Len(cacheFile.batches)}
  ELSE {}

\* C3: once a run has processed every target of the unchanged input to the
\* end, a later run started after it dispatches nothing and leaves the set of
\* stored identities as it is.
C3_IdempotentRerun ==
  [][fullRunDone => (sink' = sink /\ StoredIds' = StoredIds)]_vars

\* C3 witness: a second complete run has ended after a first complete run
\* that dispatched an alert.
C3_Witness ==
  \E p \in Pids :
    /\ proc[p].afterFull
    /\ proc[p].pc = "done"
    /\ proc[p].clean
    /\ Len(sink) >= 1

\* ---- C11 ----
\* the records a run hands to the grouper for target t
LogsOf(t) == IF variant = "samebid" THEN DetailList(upstream[t]) ELSE CallLogList(upstream[t])

\* the batches the grouper yields for target t
GroupsOf(t) == groupDropBatchByTargetStrict(variant, LogsOf(t))

TargetSet == {Targets[k] : k \in 1..Len(Targets)}

\* identities of the batches with a restricted phone number
RestrictedIds ==
  UNION { { hashBatch(variant, GroupsOf(t)[k]) :
              k \in { n \in DOMAIN GroupsOf(t) : hasRestrictedNumber(GroupsOf(t)[n]) } } :
          t \in TargetSet }

\* C11: the identity of a batch with a restricted phone number is stored in
\* the cache file when the run reaches the dispatch decision, and no run
\* hands such an identity to the messaging sink.
C11_RestrictedSuppressed ==
  /\ \A k \in 1..Len(sink) : sink[k].id \notin RestrictedIds
  /\ \A p \in Pids :
       (proc[p].pc = "notify" /\ hasRestrictedNumber(Head(proc[p].groups)))
         => hashBatch(variant, Head(proc[p].groups)) \in StoredIds

\* ---- C12 ----
\* a lock file whose token states an age
HasAge(file) == file.exists /\ file.json /\ file.timestamp # NaN

\* process p takes a step of acquireLock() from position pc
AcqStepFrom(p, pc) == proc[p].pc = pc /\ proc'[p].pc \notin {pc, "dead"}

StaleLockAge == 30

\* C12: acquire() on a token older than 30 minutes removes it, writes the
\* caller's own token and returns true; on a token of 30 minutes or less it
\* returns false and leaves the token as it is.
C12_StaleLockReclaim ==
  [][\A p \in Pids :
       /\ (AcqStepFrom(p, "acq_read") /\ HasAge(lockFile))
            => IF now - lockFile.timestamp > StaleLockAge
               THEN proc'[p].pc = "acq_unlink" /\ lockFile' = lockFile
               ELSE proc'[p].pc = "skipped" /\ lockFile' = lockFile
       /\ AcqStepFrom(p, "acq_unlink")
            => proc'[p].pc = "acq_write" /\ lockFile' = NoFile
       /\ AcqStepFrom(p, "acq_write")
            => /\ proc'[p].pc = "load"
               /\ proc'[p].holds
               /\ lockFile' = LockToken(p, now)]_vars

\* C12 witness: a run holds the lock with its own token after it removed the
\* token a crashed run had left more than 30 minutes before.
C12_Witness ==
  \E p \in Pids :
    /\ proc[p].holds
    /\ proc[p].reclaimed
    /\ lockFile = LockToken(p, now)
    /\ now > StaleLockAge

\* ---- C13 ----
\* a lock file is on disk and no run is executing
LeftoverToken == lockFile.exists /\ \A p \in Pids : ~Running(p)

\* C13: a leftover lock token, whatever it holds, is followed by a periodic
\* run whose acquire() returns true.
C13_LeftoverLockReclaimed == LeftoverToken ~> (\E p \in Pids : proc[p].holds)
\* the same for the token of a crashed run alone, which ages
C13_CrashedLockReclaimed ==
  (LeftoverToken /\ lockFile = CrashedToken) ~> (\E p \in Pids : proc[p].holds)

\* ---- C14 ----
\* the process of run p ends in this step, other than by being killed
Ends(p) ==
  /\ proc[p].pc \notin {"done", "exited", "crashed"}
  /\ proc'[p].pc \in {"done", "exited", "crashed"}

\* C14: when a run that acquired the lock ends, by running to its end (after
\* a failed entity or a failed entity list as well) or in a signal or
\* exception handler, the lock file is gone.
C14_LockReleasedOnExit ==
  [][\A p \in Pids : (proc[p].holds /\ Ends(p)) => ~lockFile'.exists]_vars

\* C14 witness: a run that held the lock has ended in a handler and the lock
\* file is gone.
C14_Witness ==
  \E p \in Pids : proc[p].pc = "exited" /\ ~lockFile.exists

\* ---- C15 ----
SeqSet(q) == {q[k] : k \in 1..Len(q)}

\* C15: after the load the in-memory store is dated today; it holds every
\* identity of the file when the file is readable and dated today, and
\* nothing when the file is absent, unreadable or dated another day.
C15_DailyReset ==
  \A p \in Pids :
    proc[p].pc = "targets" =>
      /\ proc[p].date = today
      /\ IF cacheFile.exists /\ cacheFile.json /\ cacheFile.date = today
         THEN SeqSet(proc[p].mem) = SeqSet(cacheFile.batches)
         ELSE proc[p].mem = << >>

\* C15 witness: a run has loaded a file of the previous day that holds an
\* identity, and its store is empty.
C15_Witness ==
  \E p \in Pids :
    /\ proc[p].pc = "targets"
    /\ cacheFile.exists
    /\ cacheFile.date = "d1"
    /\ cacheFile.batches # << >>
    /\ proc[p].mem = << >>

\* ---- C16 ----
\* C16: a step that hands an identity to the messaging sink is taken by a run
\* whose store holds the identity, with the identity in the cache file; and
\* while a run processes, every identity of its store is in the cache file.
C16_SaveBeforeDispatch ==
  [][/\ sink' # sink =>
          /\ Len(sink') = Len(sink) + 1
          /\ sink'[Len(sink')].id \in StoredIds
          /\ \E p \in Pids : /\ proc[p].pc = "notify"
                             /\ InList(sink'[Len(sink')].id, proc[p].mem)
     /\ \A p \in Pids :
          proc[p].pc \in {"targets", "fetch", "batch", "notify"}
            => SeqSet(proc[p].mem) \subseteq StoredIds]_vars

\* C16 witness: an alert was dispatched, its identity is in the cache file and
\* the run that dispatched it is still in its batch loop.
C16_Witness ==
  /\ Len(sink) = 1
  /\ sink[1].id \in StoredIds
  /\ proc[sink[1].by].pc = "batch"

\* ---- C17 ----
LoopPcs == {"fetch", "batch", "notify"}

\* C17: a run inside the entity loop leaves the loop only when no entity
\* remains (or when its process is killed or signalled, or an error is
\* thrown outside the per-entity try); a step of the loop,
\* a failed retrieval and a caught exception included, drops at most the
\* current entity and leaves the later ones to be processed.
C17_FailureIsolation ==
  [][\A p \in Pids :
       (proc[p].pc \in LoopPcs /\ proc'[p].pc \notin {"dead", "exited"} /\ ~proc'[p].fatal)
         => \/ /\ proc'[p].pc \in LoopPcs
               /\ \/ proc'[p].targets = proc[p].targets
                  \/ /\ proc[p].targets # << >>
                     /\ proc'[p].targets = Tail(proc[p].targets)
            \/ proc[p].pc = "fetch" /\ proc[p].targets = << >>]_vars

\* C17 witness: after the first entity failed, the run has retrieved and
\* grouped the calls of the second entity.
C17_Witness ==
  \E p \in Pids :
    /\ ~proc[p].clean
    /\ proc[p].pc = "batch"
    /\ proc[p].targets = <<"T2">>
    /\ proc[p].groups # << >>

\* ---- C18 ----
\* run p takes a step and is not killed by it
Moves(p) == proc'[p].pc # proc[p].pc /\ proc'[p].pc # "dead"

\* C18: when getAllTargets() fails, the same-bid run writes the store it
\* loaded to the cache file and dispatches nothing; from then on it only
\* saves the same store again and releases the lock, so it processes no
\* entity, and it ends with the lock file gone.
C18_EntityListFailure ==
  [][variant = "samebid" =>
       \A p \in Pids :
         /\ (proc[p].pc = "targets" /\ proc'[p].listFailed)
              => /\ proc'[p].pc = "final_save"
                 /\ proc'[p].mem = proc[p].mem
                 /\ cacheFile' = CacheData(today, proc[p].mem)
                 /\ sink' = sink
         /\ (proc[p].listFailed /\ Moves(p))
              => /\ proc'[p].pc \in {"release", "done"}
                 /\ cacheFile' = cacheFile
                 /\ sink' = sink
                 /\ proc'[p].pc = "done" => ~lockFile'.exists]_vars

\* C18 witness: a same-bid run started after a complete run has ended on a
\* failed entity list; the cache file holds the identities the complete run
\* stored and the lock file is gone.
C18_Witness ==
  /\ variant = "samebid"
  /\ \E p \in Pids :
       /\ proc[p].listFailed /\ proc[p].pc = "done" /\ proc[p].afterFull
       /\ \A q \in Pids \ {p} : proc[q].pc \in {"start", "done"} /\ ~proc[q].afterFull
  /\ StoredIds # {}
  /\ ~lockFile.exists

\* ---- C19 ----
\* the calls of an entity with n calls, in ascending call-time order
AllCalls(n) == [k \in 1..n |-> k]

\* the retrieval has ended: the grouper has its input, or the entity is left
RetrievalEnded == page.phase \in {"grouped", "skipped"}

\* C19: when the retrieval of an entity with fewer than 10,000 calls has
\* ended without a failed request, the sequence for the grouper holds every
\* call of the entity exactly once, in ascending call-time order, in each
\* variant and whatever the number of pages.
C19_CompleteRetrieval ==
  (RetrievalEnded /\ page.failed = "none" /\ page.n < PageLimit)
    => page.allLogs = AllCalls(page.n)

\* ---- C20 ----
\* the list ids without its chunk number c
WithoutChunk(ids, c) ==
  SubSeq(ids, 1, (c - 1) * batchSize) \o
  SubSeq(ids, Min(c * batchSize, Len(ids)) + 1, Len(ids))

\* C20: after one failed request the records of the other pages and chunks
\* are kept and go to the grouper: a failed page request leaves the entity
\* only when no page had been retrieved before it, and after a failed detail
\* request the grouper gets the records of every other chunk.
C20_PartialDataKept ==
  /\ (page.phase = "skipped" /\ page.failed = "page") => page.offset = 0
  /\ (page.phase = "grouped" /\ page.failed = "chunk")
       => page.allLogs = WithoutChunk(page.allCallLogList, page.lost)

\* ---- C21 ----
\* the cache file holds the store of the operating day
StoreOfToday == cacheFile.exists /\ cacheFile.json /\ cacheFile.date = today

\* C21: an identity in the cache file of the operating day is in every later
\* state of the file: no save of any run writes a list without it.
C21_NoLostUpdate ==
  [][StoreOfToday =>
       /\ cacheFile'.exists /\ cacheFile'.json /\ cacheFile'.date = today
       /\ SeqSet(cacheFile.batches) \subseteq SeqSet(cacheFile'.batches)]_vars

\* ---- C22 ----
\* C22: every iteration of the listing loop either ends the loop or moves the
\* offset up, and the loop runs only below the limit, so it ends whatever the
\* reporting API answers; a page shorter than 150 records ends it; and the
\* list it has built never holds more than 10,000 records.
C22_PaginationBounded ==
  [][(variant = "samebid" /\ page.phase = "list") =>
       /\ page'.phase # "list" \/ page'.offset > page.offset
       /\ page.offset < PageLimit
       /\ Len(UpstreamPage(page.n, page.offset)) < pageSize => page'.phase # "list"
       /\ Len(page'.allCallLogList) <= PageLimit]_vars

\* ---- C23 ----
RECURSIVE Flatten(_)
\* the concatenation of the chunks, in order
Flatten(chunks) ==
  IF chunks = << >> THEN << >> ELSE Head(chunks) \o Flatten(Tail(chunks))

\* the list without its null entries
NonNull(callIds) == SelectSeq(callIds, LAMBDA id : id # Null)

\* C23: the chunks batchCallIds returns hold between 1 and 50 IDs each, and
\* their concatenation, in order, is the input list without its null
\* entries.
C23_BatchCallIds ==
  page.phase = "batched" =>
    /\ \A c \in DOMAIN page.batchedCallLogs :
         /\ Len(page.batchedCallLogs[c]) >= 1
         /\ Len(page.batchedCallLogs[c]) <= batchSize
    /\ Flatten(page.batchedCallLogs) = NonNull(page.allCallLogList)

\* C23 witness: a list of 150 entries whose second slice of 50 is null
\* throughout and whose first slice has a null entry came back as two chunks,
\* of 49 and 50 IDs.
C23_Witness ==
  /\ page.phase = "batched"
  /\ Len(page.allCallLogList) = 150
  /\ page.allCallLogList[50] = Null
  /\ Len(page.batchedCallLogs) = 2
  /\ Len(page.batchedCallLogs[1]) = 49
  /\ page.batchedCallLogs[2][1] = 101

\* ---- C24 ----
\* C24: every iteration of the scan moves the cursor up by 1 or by 3, on the
\* null-record and missing-ID skip paths as well, no iteration is made with
\* fewer than 3 records at or after the cursor, and the scan ends.
C24_ScanTerminates ==
  /\ [][/\ Len(batch) - i >= 3
        /\ i' \in {i + 1, i + 3}
        /\ i' <= Len(batch)]_vars
  /\ <>ScanDone

\* C24 witness: the same-bid scan of six entries has ended with the cursor at
\* 4: it skipped the null first entry and took the three records after it.
C24_Witness ==
  /\ variant = "samebid"
  /\ ScanDone
  /\ Len(batch) = 6
  /\ batch[1] = NullRec
  /\ i = 4
  /\ Len(result) = 1

\* ---- C25 ----
\* the positions in the input sequence of target t, counted from 0, at which
\* three adjacent records have the identity id
FirstPosOf(t, id) ==
  { k \in 0..(Len(LogsOf(t)) - 3) :
      hashBatch(variant, SubSeq(LogsOf(t), k + 1, k + 3)) = id }

\* C25: of two batches of one entity that a run hands to sendSlackMessage,
\* the one handed over first starts earlier in the entity's input sequence.
C25_DispatchInOrder ==
  \A m, n \in 1..Len(sink) :
    (m < n /\ sink[m].by = sink[n].by) =>
      \A t \in TargetSet :
        \A k1 \in FirstPosOf(t, sink[m].id), k2 \in FirstPosOf(t, sink[n].id) :
          k1 < k2

\* C25 witness: one run has handed over the batch of the first three calls of
\* T1 and then the batch of its calls four to six.
C25_Witness ==
  /\ Len(sink) >= 2
  /\ sink[1].by = sink[2].by
  /\ 0 \in FirstPosOf("T1", sink[1].id)
  /\ 3 \in FirstPosOf("T1", sink[2].id)

\* ---- C26 ----
\* C26: the step in which acquire() returns false leaves the lock file, the
\* cache file and the sink as they are; a run that was refused has loaded no
\* store, has no entity list and no batch, has dispatched nothing, and takes
\* no further step.
C26_BlockedRunFrame ==
  [][\A p \in Pids :
       /\ (proc[p].pc # "skipped" /\ proc'[p].pc = "skipped")
            => /\ lockFile' = lockFile
               /\ cacheFile' = cacheFile
               /\ sink' = sink
       /\ proc[p].pc = "skipped"
            => /\ proc'[p] = proc[p]
               /\ proc[p].date = "" /\ proc[p].mem = << >>
               /\ proc[p].targets = << >> /\ proc[p].groups = << >>
               /\ ~proc[p].holds
               /\ \A k \in 1..Len(sink) : sink[k].by # p]_vars

\* C26 witness: a run was refused by the token of another run that is in its
\* entity loop and has dispatched an alert; the token is still that run's.
C26_Witness ==
  \E p, q \in Pids :
    /\ proc[p].pc = "skipped"
    /\ proc[q].pc \in LoopPcs
    /\ proc[q].holds
    /\ lockFile.exists /\ lockFile.json /\ lockFile.pid = q
    /\ Len(sink) >= 1

\* ---- C27 ----
\* the process of run p ends in this step after a fatal error: after the
\* catch block of runReport, or in an exception handler
EndsOnError(p) ==
  /\ proc[p].pc \notin {"done", "crashed"}
  /\ \/ proc'[p].pc = "done" /\ proc'[p].fatal
     \/ proc'[p].pc = "crashed"

\* C27: a same-bid run that ends after a fatal error, caught by the catch
\* block of the run body or by the uncaughtException / unhandledRejection
\* handlers, leaves no lock file and exits with a status other than 0.
C27_FatalExitStatus ==
  [][\A p \in Pids :
       EndsOnError(p) => /\ ~lockFile'.exists
                         /\ proc'[p].exitCode # 0]_vars

\* ---- C28 ----
\* C28: when the post of an alert fails, the run that sent it keeps the
\* identity in its store and goes on with the next batch; the identity is and
\* stays in the cache file of the day, and no later call of sendSlackMessage
\* on that day carries it again.
C28_DeliveryFailure ==
  [][/\ (sink' # sink /\ ~sink'[Len(sink')].ok) =>
          LET e == sink'[Len(sink')]
          IN  /\ InList(e.id, proc'[e.by].mem)
              /\ proc'[e.by].pc = "batch"
              /\ proc'[e.by].groups = Tail(proc[e.by].groups)
     /\ \A m \in 1..Len(sink') :
          ~sink'[m].ok =>
            /\ sink'[m].id \in StoredIds'
            /\ \A n \in (m + 1)..Len(sink') : sink'[n].id # sink'[m].id]_vars

\* C28 witness: the post of a run's first alert failed, the run has sent its
\* next alert, and a run started after a complete run has run to its end.
C28_Witness ==
  /\ Len(sink) = 2
  /\ ~sink[1].ok
  /\ sink[2].by = sink[1].by
  /\ \E q \in Pids : proc[q].afterFull /\ proc[q].pc = "done" /\ proc[q].clean

\* ---- C29 ----
\* the positions of a run inside the try block of runReport
BodyPcs == {"targets", "fetch", "batch", "notify"}

\* C29: a same-bid run loads the store only while it holds the lock; it
\* leaves the run body, on whatever path it is not stopped by a signal, only
\* into the final save, which writes its store to the cache file with the
\* lock file untouched; the release comes after it, and only the release
\* ends a run that holds the lock.
C29_LoadAfterLockSaveBeforeRelease ==
  [][variant = "samebid" =>
       \A p \in Pids :
         /\ (proc[p].date = "" /\ proc'[p].date # "") => proc[p].holds
         /\ (proc[p].pc \in BodyPcs /\ proc'[p].pc \notin BodyPcs \cup {"dead", "exited"})
              => proc'[p].pc = "final_save"
         /\ (proc[p].pc = "final_save" /\ Moves(p))
              => /\ proc'[p].pc = "release"
                 /\ cacheFile' = CacheData(proc[p].date, proc[p].mem)
                 /\ lockFile' = lockFile
         /\ (proc[p].pc = "release" /\ Moves(p))
              => /\ proc'[p].pc = "done"
                 /\ ~lockFile'.exists
                 /\ cacheFile' = cacheFile
         /\ (proc[p].holds /\ proc[p].pc # "done" /\ proc'[p].pc = "done")
              => proc[p].pc = "release"]_vars

\* C29 witness: a run that dispatched an alert and then met a fatal error has
\* ended; the cache file holds the identity of the alert and the lock file
\* is gone.
C29_Witness ==
  /\ variant = "samebid"
  /\ \E p \in Pids :
       /\ proc[p].fatal /\ proc[p].pc = "done"
       /\ Len(sink) >= 1 /\ sink[1].by = p /\ sink[1].id \in StoredIds
  /\ ~lockFile.exists

\* ---- C30 ----
\* no identity is in the list twice
NoDup(list) == \A m, n \in 1..Len(list) : m < n => list[m] # list[n]

\* C30: whatever the persisted list holds, the store a run has loaded holds
\* each identity at most once, and so does every list a save writes to the
\* cache file, in each variant.
C30_DuplicateFreeStore ==
  [][/\ \A p \in Pids : proc'[p].date # "" => NoDup(proc'[p].mem)
     /\ cacheFile' # cacheFile => NoDup(cacheFile'.batches)]_vars

\* ---- C31 ----
\* the first and the last millisecond of calendar day 'day' in a zone that
\* is 'off' hours behind UTC
DayStartIn(day, off) == DateUTC(day, off, 0, 0, 0)
DayEndIn(day, off) == DateUTC(day + 1, off, 0, 0, 0) - 1

\* C31: at every scheduled start the window computed by currentDate is the
\* operating day in America/New_York: it holds the instant of the start, and
\* it runs from the first to the last millisecond of the calendar day that
\* getTodayEST names.
C31_WindowIsOperatingDay ==
  (clock.phase = "computed" /\ ScheduledStart(clock.now, clock.utcOffset)) =>
    /\ clock.reportStart <= clock.now
    /\ clock.now <= clock.reportEnd
    /\ clock.reportStart = DayStartIn(clock.today, clock.utcOffset)
    /\ clock.reportEnd = DayEndIn(clock.today, clock.utcOffset)

\* ---- C32 ----
\* the value the alert cache file records for a target under the current day
Recorded(name) ==
  IF alerter.file.exists /\ alerter.file.readable
       /\ alerter.day \in DOMAIN alerter.file.obj
    THEN alerter.file.obj[alerter.day][name]
    ELSE Null

AlertedOnlyAboveThresholds ==
  \A e \in alerter.sent :
    /\ e.targetDialed >= 30
    /\ e.noAnswer * 5 >= e.targetDialed
RecordedAtAlert ==
  \A e \in alerter.sent : Recorded(e.targetName) = e.targetDialed
AlertsThirtyApart ==
  \A e \in alerter.sent : e.prev # Null => e.targetDialed >= e.prev + 30

\* C32: every target in the message of a pull has targetDialed >= 30 and
\* noAnswer >= 20% of it; the cache file then records that targetDialed for
\* it; and the targetDialed is at least 30 more than at the previous alert
\* of the same target on the same day.
C32_NoAnswerAlertRule ==
  /\ AlertedOnlyAboveThresholds
  /\ RecordedAtAlert
  /\ AlertsThirtyApart

\* ---- C33 ----
\* the last tick at the current hour did a pull-and-alert (to the end or to
\* the error it threw)
TickPulled == alerter.outcome \in {"pulled", "threw"}
MondayToSaturday == Weekday(alerter) \in 1..6

\* C33: in schedule mode a tick does a pull-and-alert exactly when the New
\* York time is on Monday to Saturday with 9 <= hour < 17, does nothing
\* otherwise, and leaves the next tick scheduled whether or not it threw.
C33_TickWindow ==
  alerter.outcome # "none" =>
    /\ TickPulled <=> (MondayToSaturday /\ alerter.hour >= 9 /\ alerter.hour < 17)
    /\ alerter.timer = "armed"

\* ---- C34 ----
\* run p ends through its finally block or through a handler that calls
\* releaseLock()
Releases(p) ==
  /\ proc[p].pc # proc'[p].pc
  /\ proc'[p].pc \in {"done", "exited", "crashed"}

\* C34: a run that ends through the finally block or through a signal or
\* uncaught-error handler leaves in place a lock token that another run
\* wrote: if the file holds the token of run q # p before the step, it holds
\* it after the step.
C34_ReleaseOwnTokenOnly ==
  [][\A p \in Pids :
       (Releases(p) /\ lockFile.exists /\ lockFile.json /\ lockFile.pid # p)
         => lockFile' = lockFile]_vars

\* ---- C35 ----
\* C35: in the sequence of detail records the same-bid run hands to the
\* grouper, every three neighbours are three consecutive calls of the
\* entity's time-ordered call sequence (a call is numbered by its position in
\* that sequence), whatever chunk of details failed or came back empty.
C35_NeighboursAreConsecutiveCalls ==
  (variant = "samebid" /\ page.phase = "grouped") =>
    \A k \in 1..(Len(page.allLogs) - 2) :
      /\ page.allLogs[k + 1] = page.allLogs[k] + 1
      /\ page.allLogs[k + 2] = page.allLogs[k] + 2

\* ---- C36 ----
\* C36: when a same-bid run removes the lock token, in its finally block or
\* in a handler that exits the process, none of the posts its calls of
\* sendSlackMessage started is still in flight.
C36_DeliveriesBeforeRelease ==
  [][\A p \in Pids :
       (variant = "samebid" /\ Releases(p)) => ~proc[p].inFlight]_vars

====
